---- MODULE Spec2Model ----
(***************************************************************************)
(* Resource import and identity resolution of the launcher:               *)
(*   - parseResource / parseResourceByPath (ordered fallback over the      *)
(*     registry of resource types),                                        *)
(*   - ResourceService (the multi-key index, import, remove, rename,       *)
(*     touch, refresh, load, getResource),                                 *)
(*   - the instance store module (the deployed mods and resource packs)    *)
(*     and the list of mods the renderer derives from it.                  *)
(***************************************************************************)
EXTENDS Integers, Sequences, FiniteSets, TLC

VARIABLES
    resourceRegistry,   \* ResourceService.resourceRegistry
    prIn,               \* the arguments of the parseResource call under study
    prOut,              \* what that call produced
    index,              \* ResourceService.hashOrUrlOrInoOrFilePathToResource
    files,              \* the file system: path -> [ino, data, dir]
    sidecars,           \* the persisted resources: content path -> sidecar
    tasks,              \* the resolveResourceTask executions in flight
    batches,            \* the importResources calls in flight
    pending,            \* deferred work: discards and load()'s stat callbacks
    ops,                \* the touchResource / refreshResource calls in flight
    hist,               \* history of the calls, read only by the properties
    regOut,             \* how the last registerResourceType call ended
    qryIn,              \* the query of the getResource call under study
    qryOut,             \* what that call returned
    instance,           \* state.instance: mods and resourcepacks
    domains,            \* state.resource.domains: mods
    singleton,          \* the semaphores and runningSingleton of the Singleton decorator
    instances,          \* state.instance (all, path) and the instance files
    version             \* state.version.local, the versions folder and VersionService

vars == <<resourceRegistry, prIn, prOut, index, files, sidecars, tasks,
          batches, pending, ops, hist, regOut, qryIn, qryOut, instance, domains,
          singleton, instances, version>>

\* What neither the resolver nor the resource service touches.
otherVars == <<regOut, qryIn, qryOut, instance, domains, singleton, instances, version>>

resVars == <<index, files, sidecars, tasks, batches, pending, ops, hist>>

(***************************************************************************)
(* The registry of resource types.                                         *)
(***************************************************************************)
RESOURCE_ENTRY_COMMON_MODPACK == [type |-> "modpack", domain |-> "modpacks", ext |-> ".zip"]
RESOURCE_ENTRY_FORGE == [type |-> "forge", domain |-> "mods", ext |-> ".jar"]
RESOURCE_ENTRY_LITELOADER == [type |-> "liteloader", domain |-> "mods", ext |-> ".litemod"]
RESOURCE_ENTRY_FABRIC == [type |-> "fabric", domain |-> "mods", ext |-> ".jar"]
RESOURCE_ENTRY_SAVE == [type |-> "save", domain |-> "saves", ext |-> ".zip"]
RESOURCE_ENTRY_RESOURCE_PACK == [type |-> "resourcepack", domain |-> "resourcepacks", ext |-> ".zip"]
RESOURCE_ENTRY_MODPACK == [type |-> "curseforge-modpack", domain |-> "modpacks", ext |-> ".zip"]

\* The universal fallback: its parseMetadata accepts every archive and yields
\* empty metadata, its parseIcon yields no icon.
UNKNOWN_ENTRY == [type |-> "unknown", domain |-> "unknown", ext |-> "*"]

registerResourceTypeAlways(registry, entry) ==
    [ok |-> TRUE, registry |-> Append(registry, entry)]

\* registerResourceType: a push, refused when the type is already there.
registerResourceType(registry, entry) ==
    IF \E i \in 1..Len(registry) : registry[i].type = entry.type
    THEN [ok |-> FALSE, registry |-> registry]
    ELSE [ok |-> TRUE, registry |-> Append(registry, entry)]

\* ResourceService.setup: the seven registrations, in this order.
SetupEntries ==
    << RESOURCE_ENTRY_COMMON_MODPACK, RESOURCE_ENTRY_FORGE, RESOURCE_ENTRY_LITELOADER,
       RESOURCE_ENTRY_FABRIC, RESOURCE_ENTRY_SAVE, RESOURCE_ENTRY_RESOURCE_PACK,
       RESOURCE_ENTRY_MODPACK >>

RECURSIVE RegisterAll(_, _, _)
RegisterAll(registry, entries, i) ==
    IF i > Len(entries) THEN registry
    ELSE RegisterAll(registerResourceType(registry, entries[i]).registry, entries, i + 1)

setup == RegisterAll(<<>>, SetupEntries, 1)

Types == { SetupEntries[i].type : i \in 1..Len(SetupEntries) }

(***************************************************************************)
(* parseResource.                                                          *)
(* An archive is described by what the parsers make of it: whether it can  *)
(* be opened, the types whose parseMetadata accepts it, and what parseIcon *)
(* does on it ("bytes", "none", or "reject").                              *)
(***************************************************************************)
NoHint == "undefined"
NoIcon == "undefined"
NoMetadata == "undefined"
EmptyMetadata == "{}"

\* let hint = typeHint || ''
HintOrEmpty(typeHint) == IF typeHint = NoHint THEN "" ELSE typeHint

\* Lines 253-259: the candidates (filter keeps the matching elements, in
\* order, in a new array), and the registry as the call leaves it.
ChainsPushRegistry(registry, ext, typeHint) ==
    LET chains == Append(registry, UNKNOWN_ENTRY)
    IN  [chains |-> chains, registry |-> chains]

ChainsTypeOnly(registry, ext, typeHint) ==
    LET hint == HintOrEmpty(typeHint)
        ByExt(r) == r.ext = ext
        ByHint(r) == r.type = hint
        filtered == IF hint = "*" \/ hint = ""
                    THEN SelectSeq(registry, ByExt)
                    ELSE SelectSeq(registry, ByHint)
    IN  [chains |-> Append(filtered, UNKNOWN_ENTRY), registry |-> registry]

ChainsNoUnknown(registry, ext, typeHint) ==
    LET hint == HintOrEmpty(typeHint)
        ByExt(r) == r.ext = ext
        ByHint(r) == r.domain = hint \/ r.type = hint
        filtered == IF hint = "*" \/ hint = ""
                    THEN SelectSeq(registry, ByExt)
                    ELSE SelectSeq(registry, ByHint)
    IN  [chains |-> filtered, registry |-> registry]

Chains(registry, ext, typeHint) ==
    LET hint == HintOrEmpty(typeHint)
        ByExt(r) == r.ext = ext
        ByHint(r) == r.domain = hint \/ r.type = hint
        filtered == IF hint = "*" \/ hint = ""
                    THEN SelectSeq(registry, ByExt)
                    ELSE SelectSeq(registry, ByHint)
    IN  [chains |-> Append(filtered, UNKNOWN_ENTRY), registry |-> registry]

\* entry.parseMetadata(fs): resolves with the metadata or rejects.
parseMetadata(entry, archive) ==
    IF entry.type = UNKNOWN_ENTRY.type THEN [ok |-> TRUE, metadata |-> EmptyMetadata]
    ELSE IF entry.type \in archive.accepts
         THEN [ok |-> TRUE, metadata |-> "meta:" \o entry.type]
         ELSE [ok |-> FALSE, metadata |-> NoMetadata]

\* entry.parseIcon(metadata, fs).catch(() => undefined)
parseIcon(entry, archive) ==
    IF entry.type = UNKNOWN_ENTRY.type THEN NoIcon
    ELSE IF archive.icon = "bytes" THEN "icon:" \o entry.type
    ELSE NoIcon

\* A parseMetadataAndIcon without the catch on parseIcon: a failing icon
\* rejects the candidate.
parseMetadataAndIconNoCatch(entry, archive) ==
    LET m == parseMetadata(entry, archive)
    IN  IF m.ok /\ ~(entry.type # UNKNOWN_ENTRY.type /\ archive.icon = "reject")
        THEN [ok |-> TRUE, metadata |-> m.metadata, icon |-> parseIcon(entry, archive)]
        ELSE [ok |-> FALSE, metadata |-> NoMetadata, icon |-> NoIcon]

\* parseMetadataAndIcon: rejects exactly when parseMetadata rejects.
parseMetadataAndIcon(entry, archive) ==
    LET m == parseMetadata(entry, archive)
    IN  IF m.ok
        THEN [ok |-> TRUE, metadata |-> m.metadata, icon |-> parseIcon(entry, archive)]
        ELSE [ok |-> FALSE, metadata |-> NoMetadata, icon |-> NoIcon]

Rejected(called) ==
    [status |-> "rejected", type |-> "", domain |-> "", ext |-> "",
     metadata |-> NoMetadata, icon |-> NoIcon, called |-> called]

Parsed(entry, metadata, icon, called) ==
    [status |-> "resolved", type |-> entry.type, domain |-> entry.domain, ext |-> entry.ext,
     metadata |-> metadata, icon |-> icon, called |-> called]

\* chains.map(...).reduce((memo, b) => memo.catch(() => b()), Promise.reject()):
\* candidate i + 1 runs only when candidate i rejected. called lists the
\* candidates whose parseMetadata ran.
RECURSIVE ReduceChainAll(_, _, _, _)
ReduceChainAll(chains, archive, i, called) ==
    IF i > Len(chains) THEN Rejected(called)
    ELSE LET r == parseMetadataAndIcon(chains[i], archive)
             rest == ReduceChainAll(chains, archive, i + 1, Append(called, chains[i].type))
         IN  IF rest.status = "resolved" THEN rest
             ELSE IF r.ok THEN Parsed(chains[i], r.metadata, r.icon, rest.called)
             ELSE rest

RECURSIVE ReduceChain(_, _, _, _)
ReduceChain(chains, archive, i, called) ==
    IF i > Len(chains) THEN Rejected(called)
    ELSE LET r == parseMetadataAndIcon(chains[i], archive)
             now == Append(called, chains[i].type)
         IN  IF r.ok THEN Parsed(chains[i], r.metadata, r.icon, now)
             ELSE ReduceChain(chains, archive, i + 1, now)

\* parseResource(resourceRegistry, data, ext, typeHint): the result and the
\* registry after the call. The promise of the chain is returned from inside
\* the try block without being awaited, so catch covers openFileSystem only.
parseResource(registry, archive, ext, typeHint) ==
    IF ~archive.open
    THEN [result |-> Parsed(UNKNOWN_ENTRY, NoMetadata, NoIcon, <<>>), registry |-> registry]
    ELSE LET c == Chains(registry, ext, typeHint)
         IN  [result |-> ReduceChain(c.chains, archive, 1, <<>>), registry |-> c.registry]

\* parseResourceByPath: the same chain, awaited inside the try block, so a
\* rejected chain also gives the unknown result.
parseResourceByPath(registry, archive, ext, typeHint) ==
    IF ~archive.open
    THEN [result |-> Parsed(UNKNOWN_ENTRY, NoMetadata, NoIcon, <<>>), registry |-> registry]
    ELSE LET c == Chains(registry, ext, typeHint)
             r == ReduceChain(c.chains, archive, 1, <<>>)
         IN  [result |-> IF r.status = "rejected"
                         THEN Parsed(UNKNOWN_ENTRY, NoMetadata, NoIcon, r.called)
                         ELSE r,
              registry |-> c.registry]

(***************************************************************************)
(* ResourceService: the state.                                             *)
(***************************************************************************)
MaxCalls == 2

TaskIds == {1, 2}

PathA == "/a/mod.jar"
PathB == "/b/mod.jar"
PathDir == "/d"
ImportPaths == {PathA, PathB, PathDir}

Data == {1, 2}

\* sha1(data): the hex digest of the content.
sha1(data) == "sha1:" \o ToString(data)

\* extname(path)
extname(path) == IF path \in {PathA, PathB} THEN ".jar" ELSE ""

\* What the parsers make of a content: 1 is a Forge mod, 2 a Fabric mod,
\* any other content is no archive at all.
ArchiveOf(data) ==
    CASE data = 1 -> [open |-> TRUE, accepts |-> {"forge"}, icon |-> "none"]
      [] data = 2 -> [open |-> TRUE, accepts |-> {"fabric"}, icon |-> "bytes"]
      [] OTHER -> [open |-> FALSE, accepts |-> {}, icon |-> "none"]

NoCurseforge == ""
Curseforge == "curseforge://1/2"
Url1 == "http://x/1"
Url2 == "http://x/2"

UNKNOWN_RESOURCE ==
    [hash |-> "", path |-> "", ino |-> 0, uri |-> <<>>, curseforge |-> NoCurseforge,
     name |-> "", type |-> "unknown", domain |-> "unknown"]

Range(seq) == { seq[i] : i \in 1..Len(seq) }

\* getResourceByKey: a number used as a key is the same key as its decimal string.
HasKey(idx, key) == key \in DOMAIN idx
getResourceByKey(idx, key) == IF HasKey(idx, key) THEN idx[key] ELSE UNKNOWN_RESOURCE
normalizeResource(idx, key) == getResourceByKey(idx, key)

Indexed(idx) == { idx[k] : k \in DOMAIN idx }

EmptyIndex == [k \in {} |-> UNKNOWN_RESOURCE]

\* The keys cacheResource, cacheResources and uncacheResource go through.
CacheKeysNoIdentity(r) == Range(r.uri) \cup {r.path}

CacheKeys(r) == {r.hash} \cup Range(r.uri) \cup {ToString(r.ino), r.path}

\* cacheResource / one round of the loop of cacheResources.
cacheResource(idx, r) ==
    [k \in DOMAIN idx \cup CacheKeys(r) |-> IF k \in CacheKeys(r) THEN r ELSE idx[k]]

RECURSIVE cacheResources(_, _, _)
cacheResources(idx, rs, i) ==
    IF i > Len(rs) THEN idx ELSE cacheResources(cacheResource(idx, rs[i]), rs, i + 1)

\* uncacheResource: the four deletes.
uncacheResource(idx, r) == [k \in DOMAIN idx \ CacheKeys(r) |-> idx[k]]

\* The keys the loop of load() sets at once; the inode key comes later,
\* from the stat callback.
LoadKeys(r) ==
    {r.hash} \cup Range(r.uri) \cup {r.path}
    \cup (IF r.curseforge # NoCurseforge THEN {r.curseforge} ELSE {})

(***************************************************************************)
(* The builder and the persisted form of a resource.                       *)
(***************************************************************************)
\* createResourceBuilder(source) and the three decorate calls of lines 480-484.
NewBuilder(path, hash, url, ino, curseforge) ==
    [hash |-> hash, path |-> path, ino |-> ino, uri |-> url, curseforge |-> curseforge,
     name |-> "", type |-> NoHint, domain |-> NoHint]

AddUri(uri, u) == IF u = "" \/ u \in Range(uri) THEN uri ELSE Append(uri, u)

\* getUri of the winning entry.
getUri(type, hash) == IF type = "unknown" THEN "" ELSE type \o "://" \o hash

\* decorateBuilderFromMetadata: type, domain, suggested name and canonical URI.
decorateBuilderFromMetadata(builder, info) ==
    [builder EXCEPT !.type = info.type, !.domain = info.domain,
                    !.name = IF builder.name = "" THEN "name:" \o info.type ELSE builder.name,
                    !.uri = AddUri(builder.uri, getUri(info.type, builder.hash))]

\* updateBuilderMetadata: type ?? builder.type is the hint.
BuilderHint(builder, type) == IF type # NoHint THEN type ELSE builder.type

updateBuilderMetadata(registry, builder, data, type) ==
    LET p == parseResource(registry, ArchiveOf(data), extname(builder.path), BuilderHint(builder, type))
    IN  [ok |-> p.result.status = "resolved",
         builder |-> IF p.result.status = "resolved"
                     THEN decorateBuilderFromMetadata(builder, p.result)
                     ELSE builder]

\* The managed content area: one content file and one sidecar per content.
ManagedPath(hash) == "/res/" \o hash
ManagedIno(data) == 10 + data

Sidecar(r) == [hash |-> r.hash, path |-> r.path, uri |-> r.uri, curseforge |-> r.curseforge,
               name |-> r.name, type |-> r.type, domain |-> r.domain]

\* commitResourceOnDisk: the content goes under the managed area, the
\* sidecar next to it, and the builder points to the stored content.
PersistedBuilder(builder) == [builder EXCEPT !.path = ManagedPath(builder.hash)]

PersistFiles(fs, builder, data) ==
    LET p == ManagedPath(builder.hash)
    IN  [q \in DOMAIN fs \cup {p} |->
            IF q = p THEN [ino |-> IF p \in DOMAIN fs THEN fs[p].ino ELSE ManagedIno(data),
                           data |-> data, dir |-> FALSE]
            ELSE fs[q]]

PersistSidecars(sc, builder) ==
    LET p == ManagedPath(builder.hash)
    IN  [q \in DOMAIN sc \cup {p} |-> IF q = p THEN Sidecar(PersistedBuilder(builder)) ELSE sc[q]]

\* discardResourceOnDisk: the content file and its sidecar go.
DiscardFiles(fs, r) ==
    IF r.path \in DOMAIN fs /\ ~fs[r.path].dir
    THEN [q \in DOMAIN fs \ {r.path} |-> fs[q]] ELSE fs

DiscardSidecars(sc, r) == [q \in DOMAIN sc \ {r.path} |-> sc[q]]

\* getResourceFromBuilder
getResourceFromBuilder(builder) == builder
getBuilderFromResource(resource) == resource

(***************************************************************************)
(* resolveResourceTask, importResource, importResources.                   *)
(***************************************************************************)
Single == "single"        \* the task of an importResource call
Member == "member"        \* a task of the importResources call in flight
Detached == "detached"    \* a task whose importResources call has already failed

FreeTask ==
    [pc |-> "free", path |-> "", url |-> <<>>, curseforge |-> NoCurseforge, type |-> NoHint,
     owner |-> Single, data |-> 0, res |-> UNKNOWN_RESOURCE, imported |-> FALSE,
     prior |-> {}, clean |-> FALSE]

NoLast == [kind |-> "none", res |-> UNKNOWN_RESOURCE, new |-> UNKNOWN_RESOURCE,
           path |-> "", url |-> <<>>, imported |-> FALSE, prior |-> {}, clean |-> FALSE,
           before |-> EmptyIndex]

InFlight(t) == tasks[t].pc # "free"
Idle == /\ \A t \in TaskIds : ~InFlight(t)
        /\ batches = "idle"
        /\ ops.pc = "idle"

\* hist.imported: the paths whose import has completed, with nothing but
\* imports and renames since. A task remembers the set it started with
\* (prior) and whether anything else was called while it ran (clean).
Disturbed(ts) == [t \in TaskIds |-> [ts[t] EXCEPT !.clean = FALSE]]

Called(last) == [hist EXCEPT !.calls = @ + 1, !.last = last]
CalledDisturbing(last) == [hist EXCEPT !.calls = @ + 1, !.last = last, !.imported = {}]
Stepped(last) == [hist EXCEPT !.last = last]
SteppedDisturbing(last) == [hist EXCEPT !.last = last, !.imported = {}]

CanCall == hist.calls < MaxCalls

NewTask(path, url, curseforge, type, owner) ==
    [FreeTask EXCEPT !.pc = "stat", !.path = path, !.url = url, !.curseforge = curseforge,
                     !.type = type, !.owner = owner,
                     !.prior = hist.imported, !.clean = TRUE]

\* importResource(option): the task is created and started.
ImportResource(path, url, curseforge) ==
    /\ CanCall
    /\ batches = "idle"
    /\ \E t \in TaskIds :
         /\ ~InFlight(t)
         /\ \A u \in TaskIds : u < t => InFlight(u)
         /\ tasks' = [tasks EXCEPT ![t] = NewTask(path, url, curseforge, NoHint, Single)]
    /\ hist' = Called(NoLast)
    /\ UNCHANGED <<otherVars, resourceRegistry, prIn, prOut, index, files, sidecars, batches, pending, ops>>

\* importResources(files): one task per file, all started at once.
ImportResources(path1, path2) ==
    /\ CanCall
    /\ batches = "idle"
    /\ \A t \in TaskIds : ~InFlight(t)
    /\ tasks' = [t \in TaskIds |->
                   IF t = 1 THEN NewTask(path1, <<Url1>>, NoCurseforge, NoHint, Member)
                   ELSE IF t = 2 THEN NewTask(path2, <<Url2>>, NoCurseforge, NoHint, Member)
                   ELSE tasks[t]]
    /\ batches' = "running"
    /\ hist' = Called(NoLast)
    /\ UNCHANGED <<otherVars, resourceRegistry, prIn, prOut, index, files, sidecars, pending, ops>>

Resolve(t, imported, res) ==
    [tasks EXCEPT ![t].pc = "resolved", ![t].imported = imported, ![t].res = res]
Reject(t) == [tasks EXCEPT ![t].pc = "rejected"]

\* Lines 457-471 with the stat at hand: the directory check, the lookup by
\* inode, and the return of what it finds.
StatAlwaysReads(t, st) ==
    IF st.dir THEN Reject(t)
    ELSE [tasks EXCEPT ![t].pc = "read", ![t].res.ino = st.ino]

StatOfAnything(t, st) ==
    IF HasKey(index, ToString(st.ino))
    THEN Resolve(t, FALSE, getResourceByKey(index, ToString(st.ino)))
    ELSE [tasks EXCEPT ![t].pc = "read", ![t].res.ino = st.ino]

Stat(t, st) ==
    IF st.dir THEN Reject(t)
    ELSE IF HasKey(index, ToString(st.ino))
    THEN Resolve(t, FALSE, getResourceByKey(index, ToString(st.ino)))
    ELSE [tasks EXCEPT ![t].pc = "read", ![t].res.ino = st.ino]

\* Lines 456-463: stat, the directory check and the lookup by inode.
TaskStat(t) ==
    /\ tasks[t].pc = "stat"
    /\ \/ tasks' = Reject(t)
       \/ /\ tasks[t].path \in DOMAIN files
          /\ tasks' = Stat(t, files[tasks[t].path])
    /\ hist' = Stepped(NoLast)
    /\ UNCHANGED <<otherVars, resourceRegistry, prIn, prOut, index, files, sidecars, batches, pending, ops>>

\* Lines 464-484: read, hash, the lookup by hash, and the builder.
TaskRead(t) ==
    /\ tasks[t].pc = "read"
    /\ \/ tasks' = Reject(t)
       \/ /\ tasks[t].path \in DOMAIN files
          /\ LET data == files[tasks[t].path].data
                 hash == sha1(data)
             IN  tasks' = IF HasKey(index, hash)
                          THEN [Resolve(t, FALSE, getResourceByKey(index, hash))
                                  EXCEPT ![t].data = data]
                          ELSE [tasks EXCEPT ![t].pc = "parse", ![t].data = data,
                                   ![t].res = NewBuilder(tasks[t].path, hash, tasks[t].url,
                                                         tasks[t].res.ino, tasks[t].curseforge)]
    /\ hist' = Stepped(NoLast)
    /\ UNCHANGED <<otherVars, resourceRegistry, prIn, prOut, index, files, sidecars, batches, pending, ops>>

\* Line 488: updateBuilderMetadata.
TaskParse(t) ==
    /\ tasks[t].pc = "parse"
    /\ LET u == updateBuilderMetadata(resourceRegistry, tasks[t].res, tasks[t].data, tasks[t].type)
       IN  tasks' = IF u.ok THEN [tasks EXCEPT ![t].pc = "persist", ![t].res = u.builder]
                    ELSE Reject(t)
    /\ hist' = Stepped(NoLast)
    /\ UNCHANGED <<otherVars, resourceRegistry, prIn, prOut, index, files, sidecars, batches, pending, ops>>

\* Lines 492-498: persistResource, then the task returns imported: true.
TaskPersist(t) ==
    /\ tasks[t].pc = "persist"
    /\ \/ /\ tasks' = Reject(t)
          /\ UNCHANGED <<files, sidecars>>
       \/ /\ files' = PersistFiles(files, tasks[t].res, tasks[t].data)
          /\ sidecars' = PersistSidecars(sidecars, tasks[t].res)
          /\ tasks' = Resolve(t, TRUE, getResourceFromBuilder(PersistedBuilder(tasks[t].res)))
    /\ hist' = Stepped(NoLast)
    /\ UNCHANGED <<otherVars, resourceRegistry, prIn, prOut, index, batches, pending, ops>>

\* What importResource does with the result of its task (lines 419-425).
ImportedIndexAlways(idx, imported, res) == cacheResource(idx, res)

ImportedIndex(idx, imported, res) == IF imported THEN cacheResource(idx, res) ELSE idx

ImportResourceDone(t) ==
    /\ tasks[t].owner = Single
    /\ tasks[t].pc = "resolved"
    /\ index' = ImportedIndex(index, tasks[t].imported, tasks[t].res)
    /\ tasks' = [tasks EXCEPT ![t] = FreeTask]
    /\ hist' = [hist EXCEPT !.imported = IF tasks[t].clean THEN @ \cup {tasks[t].path} ELSE @,
                            !.last = [kind |-> "import", res |-> tasks[t].res,
                                      new |-> tasks[t].res, path |-> tasks[t].path,
                                      url |-> tasks[t].url, imported |-> tasks[t].imported,
                                      prior |-> tasks[t].prior, clean |-> tasks[t].clean,
                                      before |-> EmptyIndex]]
    /\ UNCHANGED <<otherVars, resourceRegistry, prIn, prOut, files, sidecars, batches, pending, ops>>

\* The task rejected: importResource rejects with the same error.
ImportResourceFailed(t) ==
    /\ tasks[t].owner = Single
    /\ tasks[t].pc = "rejected"
    /\ tasks' = [tasks EXCEPT ![t] = FreeTask]
    /\ hist' = Stepped([NoLast EXCEPT !.kind = "importFailed", !.path = tasks[t].path])
    /\ UNCHANGED <<otherVars, resourceRegistry, prIn, prOut, index, files, sidecars, batches, pending, ops>>

Members == { t \in TaskIds : InFlight(t) /\ tasks[t].owner = Member }

RECURSIVE ImportedOf(_, _)
ImportedOf(ts, t) ==
    IF t > Cardinality(TaskIds) THEN <<>>
    ELSE IF ts[t].pc = "resolved" /\ ts[t].owner = Member /\ ts[t].imported
         THEN <<ts[t].res>> \o ImportedOf(ts, t + 1)
         ELSE ImportedOf(ts, t + 1)

\* Promise.all resolved: lines 407-408, cacheResources of the imported ones.
ImportResourcesDone ==
    /\ batches = "running"
    /\ \A t \in Members : tasks[t].pc = "resolved"
    /\ index' = cacheResources(index, ImportedOf(tasks, 1), 1)
    /\ tasks' = [t \in TaskIds |-> IF t \in Members THEN FreeTask ELSE tasks[t]]
    /\ batches' = "idle"
    /\ hist' = [hist EXCEPT !.imported = @ \cup { tasks[t].path : t \in { m \in Members : tasks[m].clean } },
                            !.last = [NoLast EXCEPT !.kind = "batch"]]
    /\ UNCHANGED <<otherVars, resourceRegistry, prIn, prOut, files, sidecars, pending, ops>>

\* Promise.all rejects with the first rejection: importResources throws at
\* line 406; the other tasks run on, and nobody takes their results.
ImportResourcesFailed(t) ==
    /\ batches = "running"
    /\ t \in Members
    /\ tasks[t].pc = "rejected"
    /\ tasks' = [u \in TaskIds |->
                   IF u = t THEN FreeTask
                   ELSE IF u \in Members THEN [tasks[u] EXCEPT !.owner = Detached]
                   ELSE tasks[u]]
    /\ batches' = "idle"
    /\ hist' = Stepped([NoLast EXCEPT !.kind = "batchFailed"])
    /\ UNCHANGED <<otherVars, resourceRegistry, prIn, prOut, index, files, sidecars, pending, ops>>

TaskDropped(t) ==
    /\ tasks[t].owner = Detached
    /\ tasks[t].pc \in {"resolved", "rejected"}
    /\ tasks' = [tasks EXCEPT ![t] = FreeTask]
    /\ hist' = Stepped([NoLast EXCEPT !.kind = "dropped", !.res = tasks[t].res,
                                       !.imported = tasks[t].pc = "resolved" /\ tasks[t].imported])
    /\ UNCHANGED <<otherVars, resourceRegistry, prIn, prOut, index, files, sidecars, batches, pending, ops>>

(***************************************************************************)
(* removeResource, renameResource, touchResource, refreshResource.         *)
(***************************************************************************)
NoOp == [pc |-> "idle", kind |-> "", res |-> UNKNOWN_RESOURCE,
         builder |-> UNKNOWN_RESOURCE, data |-> 0]

NewNames == {"renamed"}

\* removeResource: uncache now; the discard on disk is started, not awaited.
RemoveResource(key) ==
    /\ CanCall
    /\ HasKey(index, key)
    /\ LET resourceObject == normalizeResource(index, key)
       IN  /\ index' = uncacheResource(index, resourceObject)
           /\ pending' = pending \cup {[kind |-> "discard", res |-> resourceObject]}
           /\ hist' = CalledDisturbing([NoLast EXCEPT !.kind = "remove", !.res = resourceObject])
    /\ tasks' = Disturbed(tasks)
    /\ UNCHANGED <<otherVars, resourceRegistry, prIn, prOut, files, sidecars, batches, ops>>

\* discardResourceOnDisk running to its end.
Discard(p) ==
    /\ p \in pending
    /\ p.kind = "discard"
    /\ files' = DiscardFiles(files, p.res)
    /\ sidecars' = DiscardSidecars(sidecars, p.res)
    /\ pending' = pending \ {p}
    /\ hist' = SteppedDisturbing(NoLast)
    /\ tasks' = Disturbed(tasks)
    /\ UNCHANGED <<otherVars, resourceRegistry, prIn, prOut, index, batches, ops>>

\* renameResource: a new record with the new name, cached.
Renamed(resource, name) ==
    LET builder == getBuilderFromResource(resource)
    IN  getResourceFromBuilder([builder EXCEPT !.name = name])

RenameResource(key, name) ==
    /\ CanCall
    /\ HasKey(index, key)
    /\ LET resource == normalizeResource(index, key)
           result == Renamed(resource, name)
       IN  /\ index' = cacheResource(index, result)
           /\ hist' = Called([NoLast EXCEPT !.kind = "rename", !.res = resource, !.new = result])
    /\ UNCHANGED <<otherVars, resourceRegistry, prIn, prOut, files, sidecars, tasks, batches, pending, ops>>

\* touchResource / refreshResource up to their first await (readFile).
TouchResource(key) ==
    /\ CanCall
    /\ ops.pc = "idle"
    /\ HasKey(index, key)
    /\ ops' = [NoOp EXCEPT !.pc = "read", !.kind = "touch",
                           !.res = normalizeResource(index, key),
                           !.builder = getBuilderFromResource(normalizeResource(index, key))]
    /\ hist' = CalledDisturbing(NoLast)
    /\ tasks' = Disturbed(tasks)
    /\ UNCHANGED <<otherVars, resourceRegistry, prIn, prOut, index, files, sidecars, batches, pending>>

RefreshResource(key) ==
    /\ CanCall
    /\ ops.pc = "idle"
    /\ HasKey(index, key)
    /\ ops' = [NoOp EXCEPT !.pc = "read", !.kind = "refresh",
                           !.res = normalizeResource(index, key),
                           !.builder = getBuilderFromResource(normalizeResource(index, key))]
    /\ hist' = CalledDisturbing(NoLast)
    /\ tasks' = Disturbed(tasks)
    /\ UNCHANGED <<otherVars, resourceRegistry, prIn, prOut, index, files, sidecars, batches, pending>>

OpDone(new) == [NoLast EXCEPT !.kind = ops.kind, !.res = ops.res, !.new = new]

\* readFile(resource.path) came back. touch: the hash is taken again and
\* compared (lines 347-350); refresh: goes on to updateBuilderMetadata.
OpRead ==
    /\ ops.pc = "read"
    /\ \/ /\ ops' = [ops EXCEPT !.pc = "catch"]
          /\ hist' = SteppedDisturbing(NoLast)
       \/ /\ ops.res.path \in DOMAIN files
          /\ LET data == files[ops.res.path].data
             IN  IF ops.kind = "refresh"
                 THEN /\ ops' = [ops EXCEPT !.pc = "parse", !.data = data]
                      /\ hist' = SteppedDisturbing(NoLast)
                 ELSE IF sha1(data) # ops.res.hash
                 THEN /\ ops' = [ops EXCEPT !.pc = "unpersist", !.data = data,
                                            !.builder.hash = sha1(data)]
                      /\ hist' = SteppedDisturbing(NoLast)
                 ELSE /\ ops' = NoOp
                      /\ hist' = SteppedDisturbing(OpDone(ops.res))
    /\ tasks' = Disturbed(tasks)
    /\ UNCHANGED <<otherVars, resourceRegistry, prIn, prOut, index, files, sidecars, batches, pending>>

\* refresh, line 326.
OpParse ==
    /\ ops.pc = "parse"
    /\ LET u == updateBuilderMetadata(resourceRegistry, ops.builder, ops.data, NoHint)
       IN  ops' = IF u.ok THEN [ops EXCEPT !.pc = "persist", !.builder = u.builder]
                  ELSE [ops EXCEPT !.pc = "catch"]
    /\ hist' = SteppedDisturbing(NoLast)
    /\ tasks' = Disturbed(tasks)
    /\ UNCHANGED <<otherVars, resourceRegistry, prIn, prOut, index, files, sidecars, batches, pending>>

\* touch, line 351.
OpUnpersist ==
    /\ ops.pc = "unpersist"
    /\ \/ /\ ops' = [ops EXCEPT !.pc = "catch"]
          /\ UNCHANGED <<files, sidecars>>
       \/ /\ files' = DiscardFiles(files, ops.res)
          /\ sidecars' = DiscardSidecars(sidecars, ops.res)
          /\ ops' = [ops EXCEPT !.pc = "persist"]
    /\ hist' = SteppedDisturbing(NoLast)
    /\ tasks' = Disturbed(tasks)
    /\ UNCHANGED <<otherVars, resourceRegistry, prIn, prOut, index, batches, pending>>

\* persistResource, then cacheResource of the new record (lines 327-328, 352-354).
OpPersist ==
    /\ ops.pc = "persist"
    /\ \/ /\ ops' = [ops EXCEPT !.pc = "catch"]
          /\ hist' = SteppedDisturbing(NoLast)
          /\ UNCHANGED <<files, sidecars, index>>
       \/ /\ files' = PersistFiles(files, ops.builder, ops.data)
          /\ sidecars' = PersistSidecars(sidecars, ops.builder)
          /\ index' = cacheResource(index, getResourceFromBuilder(PersistedBuilder(ops.builder)))
          /\ ops' = NoOp
          /\ hist' = SteppedDisturbing(OpDone(getResourceFromBuilder(PersistedBuilder(ops.builder))))
    /\ tasks' = Disturbed(tasks)
    /\ UNCHANGED <<otherVars, resourceRegistry, prIn, prOut, batches, pending>>

\* The catch blocks: uncacheResource, then unpersistResource is awaited.
OpCatch ==
    /\ ops.pc = "catch"
    /\ index' = uncacheResource(index, ops.res)
    /\ ops' = [ops EXCEPT !.pc = "discard"]
    /\ hist' = SteppedDisturbing(NoLast)
    /\ tasks' = Disturbed(tasks)
    /\ UNCHANGED <<otherVars, resourceRegistry, prIn, prOut, files, sidecars, batches, pending>>

\* unpersistResource came back: resourceRemove is committed and the call
\* returns. The call failed at readFile when no data was read.
OpDiscard ==
    /\ ops.pc = "discard"
    /\ files' = DiscardFiles(files, ops.res)
    /\ sidecars' = DiscardSidecars(sidecars, ops.res)
    /\ ops' = NoOp
    /\ hist' = SteppedDisturbing([NoLast EXCEPT
                    !.kind = ops.kind \o (IF ops.data = 0 THEN "Unreadable" ELSE "Failed"),
                    !.res = ops.res])
    /\ tasks' = Disturbed(tasks)
    /\ UNCHANGED <<otherVars, resourceRegistry, prIn, prOut, index, batches, pending>>

(***************************************************************************)
(* load(), run on a fresh process, and the environment.                    *)
(***************************************************************************)
Orders(S) ==
    { o \in [1..Cardinality(S) -> S] : \A i, j \in 1..Cardinality(S) : o[i] = o[j] => i = j }

\* Lines 284-291: the sidecar plus size and ino of the content file.
Loaded(sc, fs) ==
    [hash |-> sc.hash, path |-> sc.path, ino |-> fs[sc.path].ino, uri |-> sc.uri,
     curseforge |-> sc.curseforge, name |-> sc.name, type |-> sc.type, domain |-> sc.domain]

\* One round of the loop of lines 297-305.
LoadResource(idx, r) ==
    [k \in DOMAIN idx \cup LoadKeys(r) |-> IF k \in LoadKeys(r) THEN r ELSE idx[k]]

RECURSIVE LoadAll(_, _, _)
LoadAll(idx, rs, i) ==
    IF i > Len(rs) THEN idx ELSE LoadAll(LoadResource(idx, rs[i]), rs, i + 1)

\* The process starts again, with nothing in memory, and load() runs: to
\* its end, or to the stat of line 287 that throws because the content file
\* of a sidecar is not there, which rejects load() before anything is indexed.
Load ==
    /\ CanCall
    /\ Idle
    /\ pending = {}
    /\ IF \E p \in DOMAIN sidecars : sidecars[p].path \notin DOMAIN files
       THEN /\ index' = EmptyIndex
            /\ pending' = {}
            /\ hist' = CalledDisturbing([NoLast EXCEPT !.kind = "loadFailed", !.before = index])
       ELSE \E o \in Orders(DOMAIN sidecars) :
              LET rs == [i \in 1..Len(o) |-> Loaded(sidecars[o[i]], files)]
              IN  /\ index' = LoadAll(EmptyIndex, rs, 1)
                  /\ pending' = { [kind |-> "ino", res |-> rs[i]] : i \in 1..Len(rs) }
                  /\ hist' = CalledDisturbing([NoLast EXCEPT !.kind = "load", !.before = index])
    /\ UNCHANGED <<otherVars, resourceRegistry, prIn, prOut, files, sidecars, tasks, batches, ops>>

\* The stat callback of lines 306-311.
LoadIno(p) ==
    /\ p \in pending
    /\ p.kind = "ino"
    /\ index' = IF p.res.path \in DOMAIN files
                THEN LET k == ToString(files[p.res.path].ino)
                     IN  [q \in DOMAIN index \cup {k} |-> IF q = k THEN p.res ELSE index[q]]
                ELSE index
    /\ pending' = pending \ {p}
    /\ hist' = SteppedDisturbing(IF hist.last.kind = "load" THEN hist.last ELSE NoLast)
    /\ tasks' = Disturbed(tasks)
    /\ UNCHANGED <<otherVars, resourceRegistry, prIn, prOut, files, sidecars, batches, ops>>

\* Somebody else writes other bytes to a file.
ModifyFile(path, data) ==
    /\ CanCall
    /\ path \in DOMAIN files
    /\ ~files[path].dir
    /\ files[path].data # data
    /\ files' = [files EXCEPT ![path].data = data]
    /\ hist' = CalledDisturbing(NoLast)
    /\ tasks' = Disturbed(tasks)
    /\ UNCHANGED <<otherVars, resourceRegistry, prIn, prOut, index, sidecars, batches, pending, ops>>

\* Somebody else deletes a file of the managed area.
DeleteFile(path) ==
    /\ CanCall
    /\ path \in DOMAIN files
    /\ ~files[path].dir
    /\ files' = [q \in DOMAIN files \ {path} |-> files[q]]
    /\ hist' = CalledDisturbing(NoLast)
    /\ tasks' = Disturbed(tasks)
    /\ UNCHANGED <<otherVars, resourceRegistry, prIn, prOut, index, sidecars, batches, pending, ops>>

(***************************************************************************)
(* The specification of the resource service.                              *)
(***************************************************************************)
NoCall == [status |-> "none"]

\* The parts of the state at rest.
NoInstance == [mods |-> <<>>, resourcepacks |-> <<>>]
NoDomains == [mods |-> <<>>]
NoSingleton == [status |-> "none"]
NoInstances == [status |-> "none"]
NoVersion == [status |-> "none"]

OtherIdle ==
    /\ regOut = "none"
    /\ qryIn = NoCall
    /\ qryOut = NoCall
    /\ instance = NoInstance
    /\ domains = NoDomains
    /\ singleton = NoSingleton
    /\ instances = NoInstances
    /\ version = NoVersion

InitFiles ==
    { [p \in ImportPaths |->
         IF p = PathA THEN [ino |-> 1, data |-> 1, dir |-> FALSE]
         ELSE IF p = PathB THEN [ino |-> 2, data |-> d, dir |-> FALSE]
         ELSE [ino |-> 3, data |-> 0, dir |-> TRUE]] : d \in Data }

\* The url and the curseforge source an import comes with.
ImportSources == {<<Url1, NoCurseforge>>, <<Url2, Curseforge>>}

NoSidecars == [k \in {} |-> Sidecar(UNKNOWN_RESOURCE)]

\* What an earlier session left when it imported PathA from curseforge.
EarlierBuilder ==
    updateBuilderMetadata(setup, NewBuilder(PathA, sha1(1), <<Url2>>, 1, Curseforge), 1, NoHint).builder

EarlierResource(fs) ==
    Loaded(PersistSidecars(NoSidecars, EarlierBuilder)[ManagedPath(sha1(1))], fs)

\* The process has started: either on an empty managed area, or on what an
\* earlier session left, with load() done and its stat callback still to come.
Init ==
    /\ resourceRegistry = setup
    /\ prIn = NoCall
    /\ prOut = NoCall
    /\ \E fs \in InitFiles :
         \/ /\ files = fs
            /\ sidecars = NoSidecars
            /\ index = EmptyIndex
            /\ pending = {}
         \/ /\ files = PersistFiles(fs, EarlierBuilder, 1)
            /\ sidecars = PersistSidecars(NoSidecars, EarlierBuilder)
            /\ index = LoadAll(EmptyIndex, <<EarlierResource(files)>>, 1)
            /\ pending = {[kind |-> "ino", res |-> EarlierResource(files)]}
    /\ tasks = [t \in TaskIds |-> FreeTask]
    /\ batches = "idle"
    /\ ops = NoOp
    /\ hist = [calls |-> 0, imported |-> {}, last |-> NoLast]
    /\ OtherIdle

Next ==
    \/ \E p \in ImportPaths, o \in ImportSources : ImportResource(p, <<o[1]>>, o[2])
    \/ \E p1 \in {PathA, PathDir}, p2 \in {PathA, PathB} : ImportResources(p1, p2)
    \/ \E t \in TaskIds : TaskStat(t)
    \/ \E t \in TaskIds : TaskRead(t)
    \/ \E t \in TaskIds : TaskParse(t)
    \/ \E t \in TaskIds : TaskPersist(t)
    \/ \E t \in TaskIds : ImportResourceDone(t)
    \/ \E t \in TaskIds : ImportResourceFailed(t)
    \/ ImportResourcesDone
    \/ \E t \in TaskIds : ImportResourcesFailed(t)
    \/ \E t \in TaskIds : TaskDropped(t)
    \/ \E k \in DOMAIN index : RemoveResource(k)
    \/ \E p \in pending : Discard(p)
    \/ \E k \in DOMAIN index, n \in NewNames : RenameResource(k, n)
    \/ \E k \in DOMAIN index : TouchResource(k)
    \/ \E k \in DOMAIN index : RefreshResource(k)
    \/ OpRead
    \/ OpParse
    \/ OpUnpersist
    \/ OpPersist
    \/ OpCatch
    \/ OpDiscard
    \/ Load
    \/ \E p \in pending : LoadIno(p)
    \/ \E p \in DOMAIN files, d \in Data : ModifyFile(p, d)
    \/ \E p \in DOMAIN files \ ImportPaths : DeleteFile(p)

Spec == Init /\ [][Next]_vars

(***************************************************************************)
(* The specification of the resolver: parseResource and                    *)
(* parseResourceByPath applied to every archive, extension and hint.       *)
(***************************************************************************)
Exts == {".jar", ".zip", ".litemod", ".txt"}
Hints == {NoHint, "", "*", "mods", "forge", "fabric", "modpacks", "save", "unknown"}
Archives == [open : BOOLEAN, accepts : SUBSET Types, icon : {"bytes", "none", "reject"}]

InitParse ==
    /\ resourceRegistry = setup
    /\ prIn \in [status : {"ready"}, ext : Exts, typeHint : Hints, archive : Archives]
    /\ prOut = NoCall
    /\ index = EmptyIndex
    /\ files \in InitFiles
    /\ sidecars = NoSidecars
    /\ tasks = [t \in TaskIds |-> FreeTask]
    /\ batches = "idle"
    /\ pending = {}
    /\ ops = NoOp
    /\ hist = [calls |-> 0, imported |-> {}, last |-> NoLast]
    /\ OtherIdle

ParseOut(fn, p) ==
    [status |-> "done", fn |-> fn, result |-> p.result,
     chains |-> Chains(resourceRegistry, prIn.ext, prIn.typeHint).chains,
     before |-> resourceRegistry]

ParseResourceCall ==
    /\ prIn.status = "ready"
    /\ prOut = NoCall
    /\ LET p == parseResource(resourceRegistry, prIn.archive, prIn.ext, prIn.typeHint)
       IN  /\ prOut' = ParseOut("parseResource", p)
           /\ resourceRegistry' = p.registry
    /\ UNCHANGED <<prIn, resVars, otherVars>>

ParseResourceByPathCall ==
    /\ prIn.status = "ready"
    /\ prOut = NoCall
    /\ LET p == parseResourceByPath(resourceRegistry, prIn.archive, prIn.ext, prIn.typeHint)
       IN  /\ prOut' = ParseOut("parseResourceByPath", p)
           /\ resourceRegistry' = p.registry
    /\ UNCHANGED <<prIn, resVars, otherVars>>

NextParse == ParseResourceCall \/ ParseResourceByPathCall

SpecParse == InitParse /\ [][NextParse]_vars

(***************************************************************************)
(* The specification of the registry: registerResourceType called with any *)
(* descriptors in any order.                                               *)
(***************************************************************************)
\* A second descriptor of the forge type, for another extension.
OtherForgeEntry == [RESOURCE_ENTRY_FORGE EXCEPT !.ext = ".zip"]

Registrable == Range(SetupEntries) \cup {OtherForgeEntry}

InitRegistry ==
    /\ resourceRegistry = <<>>
    /\ prIn = NoCall
    /\ prOut = NoCall
    /\ index = EmptyIndex
    /\ files = [p \in {} |-> 0]
    /\ sidecars = NoSidecars
    /\ tasks = [t \in TaskIds |-> FreeTask]
    /\ batches = "idle"
    /\ pending = {}
    /\ ops = NoOp
    /\ hist = [calls |-> 0, imported |-> {}, last |-> NoLast]
    /\ OtherIdle

RegisterResourceType(entry) ==
    /\ LET r == registerResourceType(resourceRegistry, entry)
       IN  /\ resourceRegistry' = r.registry
           /\ regOut' = IF r.ok THEN "returned" ELSE "threw"
    /\ UNCHANGED <<prIn, prOut, resVars, qryIn, qryOut, instance, domains, singleton, instances, version>>

NextRegistry == \E entry \in Registrable : RegisterResourceType(entry)

SpecRegistry == InitRegistry /\ [][NextRegistry]_vars

(***************************************************************************)
(* The specification of getResource: every query against the indexes that  *)
(* caching a few resources produces.                                       *)
(***************************************************************************)
\* query.url: absent, one string, or an array of strings.
NoUrl == [kind |-> "undefined", value |-> "", values |-> <<>>]
UrlString(u) == [kind |-> "string", value |-> u, values |-> <<>>]
UrlArray(us) == [kind |-> "array", value |-> "", values |-> us]

\* for (let u of query.url): the first url that is a key.
RECURSIVE FirstUrl(_, _, _)
FirstUrl(idx, us, i) ==
    IF i > Len(us) THEN UNKNOWN_RESOURCE
    ELSE IF HasKey(idx, us[i]) THEN idx[us[i]]
    ELSE FirstUrl(idx, us, i + 1)

QueryIno(idx, query) ==
    IF query.ino # 0 /\ HasKey(idx, ToString(query.ino))
    THEN idx[ToString(query.ino)]
    ELSE UNKNOWN_RESOURCE

QueryUrl(idx, query) ==
    IF query.url.kind = "undefined" \/ (query.url.kind = "string" /\ query.url.value = "")
    THEN UNKNOWN_RESOURCE
    ELSE IF query.url.kind = "string"
    THEN getResourceByKey(idx, query.url.value)
    ELSE FirstUrl(idx, query.url.values, 1)

QueryHash(idx, query) ==
    IF query.hash # "" THEN getResourceByKey(idx, query.hash) ELSE UNKNOWN_RESOURCE

getResourceInoFirst(idx, query) ==
    IF QueryHash(idx, query) # UNKNOWN_RESOURCE THEN QueryHash(idx, query)
    ELSE IF QueryIno(idx, query) # UNKNOWN_RESOURCE THEN QueryIno(idx, query)
    ELSE QueryUrl(idx, query)

\* getResource(query); an absent hash is "", an absent ino is 0, both falsy.
getResource(idx, query) ==
    IF QueryHash(idx, query) # UNKNOWN_RESOURCE THEN QueryHash(idx, query)
    ELSE IF QueryUrl(idx, query) # UNKNOWN_RESOURCE THEN QueryUrl(idx, query)
    ELSE QueryIno(idx, query)

\* Three resources as an import leaves them; the third came from the url
\* of the first.
Stored(n, url) ==
    [UNKNOWN_RESOURCE EXCEPT !.hash = sha1(n), !.path = ManagedPath(sha1(n)), !.ino = n,
                             !.uri = <<url>>, !.type = "forge", !.domain = "mods",
                             !.name = "name:forge"]

StoredResources == {Stored(1, Url1), Stored(2, Url2), Stored(3, Url1)}

QueryIndexes ==
    UNION { { cacheResources(EmptyIndex, o, 1) : o \in Orders(S) } : S \in SUBSET StoredResources }

UnknownUrl == "http://x/9"
QueryUrls == {Url1, Url2, UnknownUrl}

Queries ==
    [hash : {"", sha1(1), sha1(2), sha1(9)},
     url : {NoUrl} \cup { UrlString(u) : u \in QueryUrls \cup {""} }
           \cup { UrlArray(<<u>>) : u \in QueryUrls }
           \cup { UrlArray(<<u, v>>) : u \in QueryUrls, v \in QueryUrls },
     ino : {0, 1, 2, 3, 9}]

InitQuery ==
    /\ resourceRegistry = setup
    /\ prIn = NoCall
    /\ prOut = NoCall
    /\ index \in QueryIndexes
    /\ files = [p \in {} |-> 0]
    /\ sidecars = NoSidecars
    /\ tasks = [t \in TaskIds |-> FreeTask]
    /\ batches = "idle"
    /\ pending = {}
    /\ ops = NoOp
    /\ hist = [calls |-> 0, imported |-> {}, last |-> NoLast]
    /\ regOut = "none"
    /\ qryIn \in Queries
    /\ qryOut = NoCall
    /\ instance = NoInstance
    /\ domains = NoDomains
    /\ singleton = NoSingleton
    /\ instances = NoInstances
    /\ version = NoVersion

GetResource ==
    /\ qryOut = NoCall
    /\ qryOut' = [status |-> "done", result |-> getResource(index, qryIn)]
    /\ UNCHANGED <<resourceRegistry, prIn, prOut, resVars, regOut, qryIn, instance, domains,
                   singleton, instances, version>>

\* A reference given to exportResource: a key, or a Resource object.
KeyRef(key) == [kind |-> "string", key |-> key, res |-> UNKNOWN_RESOURCE]
ResourceRef(res) == [kind |-> "resource", key |-> "", res |-> res]

\* normalizeResource(resource) for both kinds of reference: a string is
\* looked up, an object is taken as it is.
normalizeRef(idx, ref) ==
    IF ref.kind = "string" THEN normalizeResource(idx, ref.key) ELSE ref.res

\* copyPassively(res.path, join(targetDirectory, res.name + res.ext)); the
\* resource of the model carries no ext, the name stands for the file name.
CopyOf(res) == [from |-> res.path, to |-> res.name]

\* An exportResource that leaves out the references it cannot find.
RECURSIVE exportResourceSkipping(_, _, _, _)
exportResourceSkipping(idx, resources, i, promises) ==
    IF i > Len(resources) THEN [threw |-> FALSE, copies |-> promises, index |-> idx]
    ELSE LET res == normalizeRef(idx, resources[i])
         IN  IF res = UNKNOWN_RESOURCE
             THEN exportResourceSkipping(idx, resources, i + 1, promises)
             ELSE exportResourceSkipping(idx, resources, i + 1, Append(promises, CopyOf(res)))

\* exportResource({ resources, targetDirectory }): the loop of lines 435-440
\* from reference i on; promises are the copies started so far. A throw
\* leaves the copies already started running.
RECURSIVE exportResource(_, _, _, _)
exportResource(idx, resources, i, promises) ==
    IF i > Len(resources) THEN [threw |-> FALSE, copies |-> promises, index |-> idx]
    ELSE LET res == normalizeRef(idx, resources[i])
         IN  IF res = UNKNOWN_RESOURCE
             THEN [threw |-> TRUE, copies |-> promises, index |-> idx]
             ELSE exportResource(idx, resources, i + 1, Append(promises, CopyOf(res)))

ExportRefs ==
    { KeyRef(k) : k \in {sha1(1), Url1, "3", ManagedPath(sha1(2)), UnknownUrl, ""} }
    \cup { ResourceRef(r) : r \in {Stored(1, Url1), Stored(2, Url2), UNKNOWN_RESOURCE} }

ExportLists == { <<a>> : a \in ExportRefs } \cup { <<a, b>> : a \in ExportRefs, b \in ExportRefs }

ExportResource(resources) ==
    /\ qryOut = NoCall
    /\ LET e == exportResource(index, resources, 1, <<>>)
       IN  /\ index' = e.index
           /\ qryOut' = [status |-> "exported", resources |-> resources, threw |-> e.threw,
                         copies |-> e.copies, before |-> index]
    /\ UNCHANGED <<resourceRegistry, prIn, prOut, files, sidecars, tasks, batches, pending,
                   ops, hist, regOut, qryIn, instance, domains, singleton, instances, version>>

NextQuery ==
    \/ GetResource
    \/ \E resources \in ExportLists : ExportResource(resources)

SpecQuery == InitQuery /\ [][NextQuery]_vars

(***************************************************************************)
(* The instance module of the store: the deployed mods and resource packs, *)
(* and the list of mods useInstanceMods derives from it.                   *)
(***************************************************************************)
MaxDeployed == 3

ModA == [UNKNOWN_RESOURCE EXCEPT !.hash = "sha1:1", !.type = "forge", !.domain = "mods",
                                 !.path = "/res/sha1:1"]
ModB == [UNKNOWN_RESOURCE EXCEPT !.hash = "sha1:2", !.type = "fabric", !.domain = "mods",
                                 !.path = "/res/sha1:2"]
ModC == [UNKNOWN_RESOURCE EXCEPT !.hash = "sha1:5", !.type = "liteloader", !.domain = "mods",
                                 !.path = "/res/sha1:5"]
PackA == [UNKNOWN_RESOURCE EXCEPT !.hash = "sha1:3", !.type = "resourcepack",
                                  !.domain = "resourcepacks", !.path = "/res/sha1:3"]
PackB == [UNKNOWN_RESOURCE EXCEPT !.hash = "sha1:4", !.type = "resourcepack",
                                  !.domain = "resourcepacks", !.path = "/res/sha1:4"]

Mods == {ModA, ModB, ModC}
Packs == {PackA, PackB}

\* The arguments of the mutations: one or two different resources.
Lists(S) == { <<a>> : a \in S } \cup { l \in { <<a, b>> : a \in S, b \in S } : l[1] # l[2] }

\* Array.prototype.filter with m => m.hash !== hash.
WithoutHash(seq, hash) == SelectSeq(seq, LAMBDA m : m.hash # hash)

RECURSIVE RemoveEach(_, _, _)
RemoveEach(seq, res, i) ==
    IF i > Len(res) THEN seq ELSE RemoveEach(WithoutHash(seq, res[i].hash), res, i + 1)

instanceModAdd(state, r) == [state EXCEPT !.mods = @ \o r]
instanceModRemove(state, res) == [state EXCEPT !.mods = RemoveEach(@, res, 1)]
instanceMods(state, resources) == [state EXCEPT !.mods = resources]
instanceResourcepackAdd(state, r) == [state EXCEPT !.resourcepacks = @ \o r]
instanceResourcepackRemove(state, res) == [state EXCEPT !.resourcepacks = RemoveEach(@, res, 1)]
instanceResourcepacks(state, resources) == [state EXCEPT !.resourcepacks = resources]

instanceRest ==
    <<resourceRegistry, prIn, prOut, resVars, regOut, qryIn, qryOut, singleton, instances, version>>

CommitInstanceModAdd(r) ==
    /\ Len(instance.mods) + Len(r) <= MaxDeployed
    /\ instance' = instanceModAdd(instance, r)
    /\ UNCHANGED <<domains, instanceRest>>

CommitInstanceModRemove(res) ==
    /\ instance' = instanceModRemove(instance, res)
    /\ UNCHANGED <<domains, instanceRest>>

CommitInstanceMods(resources) ==
    /\ instance' = instanceMods(instance, resources)
    /\ UNCHANGED <<domains, instanceRest>>

CommitInstanceResourcepackAdd(r) ==
    /\ Len(instance.resourcepacks) + Len(r) <= MaxDeployed
    /\ instance' = instanceResourcepackAdd(instance, r)
    /\ UNCHANGED <<domains, instanceRest>>

CommitInstanceResourcepackRemove(res) ==
    /\ instance' = instanceResourcepackRemove(instance, res)
    /\ UNCHANGED <<domains, instanceRest>>

CommitInstanceResourcepacks(resources) ==
    /\ instance' = instanceResourcepacks(instance, resources)
    /\ UNCHANGED <<domains, instanceRest>>

\* The resource module of the store follows the index: a resource of the
\* mods domain comes in, or goes with resourceRemove.
CommitResource(r) ==
    /\ \A i \in 1..Len(domains.mods) : domains.mods[i].hash # r.hash
    /\ domains' = [domains EXCEPT !.mods = Append(@, r)]
    /\ UNCHANGED <<instance, instanceRest>>

CommitResourceRemove(r) ==
    /\ \E i \in 1..Len(domains.mods) : domains.mods[i].hash = r.hash
    /\ domains' = [domains EXCEPT !.mods = WithoutHash(@, r.hash)]
    /\ UNCHANGED <<instance, instanceRest>>

\* isModResource
isModResource(resource) == resource.type \in {"forge", "fabric", "liteloader"}

\* getModItemFromResource: what the properties read of a ModItem.
getModItemFromResource(resource) ==
    [hash |-> resource.hash, path |-> resource.path,
     type |-> IF isModResource(resource) THEN resource.type ELSE "unknown",
     enabled |-> FALSE]

ItemsOfDeployed(resourceMods, instanceModList) ==
    [i \in 1..Len(instanceModList) |->
        [getModItemFromResource(instanceModList[i]) EXCEPT !.enabled = TRUE]]

\* useInstanceMods: the computed items.
Items(resourceMods, instanceModList) ==
    LET items == [i \in 1..Len(resourceMods) |-> getModItemFromResource(resourceMods[i])]
        hashs == { instanceModList[i].hash : i \in 1..Len(instanceModList) }
    IN  [i \in 1..Len(items) |->
            IF items[i].hash \in hashs THEN [items[i] EXCEPT !.enabled = TRUE] ELSE items[i]]

InitInstance ==
    /\ resourceRegistry = setup
    /\ prIn = NoCall
    /\ prOut = NoCall
    /\ index = EmptyIndex
    /\ files = [p \in {} |-> 0]
    /\ sidecars = NoSidecars
    /\ tasks = [t \in TaskIds |-> FreeTask]
    /\ batches = "idle"
    /\ pending = {}
    /\ ops = NoOp
    /\ hist = [calls |-> 0, imported |-> {}, last |-> NoLast]
    /\ OtherIdle

NextInstance ==
    \/ \E r \in Lists(Mods) : CommitInstanceModAdd(r)
    \/ \E r \in Lists(Mods) : CommitInstanceModRemove(r)
    \/ \E r \in Lists(Mods) \cup {<<>>} : CommitInstanceMods(r)
    \/ \E r \in Lists(Packs) : CommitInstanceResourcepackAdd(r)
    \/ \E r \in Lists(Packs) : CommitInstanceResourcepackRemove(r)
    \/ \E r \in Lists(Packs) \cup {<<>>} : CommitInstanceResourcepacks(r)
    \/ \E r \in Mods : CommitResource(r)
    \/ \E r \in Mods : CommitResourceRemove(r)

SpecInstance == InitInstance /\ [][NextInstance]_vars

(***************************************************************************)
(* The Singleton decorator: calls of two decorated methods of UserService, *)
(* refreshUser (no key serializer) and removeUserProfile (keyed by the     *)
(* user id), in any order, and the settling of their promises.             *)
(***************************************************************************)
MaxSingletonCalls == 3

UserIds == {"u1", "u2"}
SingletonMethods == {"refreshUser", "removeUserProfile"}
SemaphoreKeys == SingletonMethods \cup UserIds \cup {"mountInstanceSaves"}

\* How method.apply(this, args) ends: it returns a promise, returns
\* something else, or throws.
Behaviours == {"promise", "value", "throw"}

\* The semaphores of the service manager: a counter per key.
isBusy(semaphore, key) == semaphore[key] > 0
aquire(semaphore, keys) ==
    [k \in DOMAIN semaphore |-> IF k \in Range(keys) THEN semaphore[k] + 1 ELSE semaphore[k]]
release(semaphore, keys) ==
    [k \in DOMAIN semaphore |-> IF k \in Range(keys) THEN semaphore[k] - 1 ELSE semaphore[k]]

\* [propertyKey, ...keys.map(k => k.bind(this)(...args))]
Semiphores(method, arg) ==
    IF method = "removeUserProfile" THEN <<method, arg>> ELSE <<method>>

\* The serialized keys only, without the name of the method.
OwnKeys(method, arg) ==
    IF method = "removeUserProfile" THEN <<arg>> ELSE <<method>>

Pending(s) == { n \in 1..Len(s.promises) : s.promises[n].state = "pending" }

SingletonIdle ==
    [semaphore |-> [k \in SemaphoreKeys |-> 0],
     runningSingleton |-> [k \in SemaphoreKeys |-> 0],
     promises |-> <<>>,
     calls |-> <<>>]

\* A call that found a semaphore busy: what runningSingleton holds for the
\* name of the method is returned, the method is not applied.
Joined(s, method, arg) ==
    LET p == s.runningSingleton[Semiphores(method, arg)[1]]
    IN  [s EXCEPT !.calls = Append(@, [method |-> method, arg |-> arg, ran |-> FALSE,
                                       returned |-> IF p = 0 THEN "undefined" ELSE "promise",
                                       promise |-> p, inflight |-> Pending(s)])]

\* A call that applies the method. A promise keeps the semaphores until it
\* settles; anything else releases them before the call returns.
Applied(s, method, arg, behaviour, semiphores, held) ==
    LET n == Len(s.promises) + 1
        call == [method |-> method, arg |-> arg, ran |-> TRUE, inflight |-> Pending(s),
                 returned |-> IF behaviour = "throw" THEN "threw" ELSE behaviour,
                 promise |-> IF behaviour = "promise" THEN n ELSE 0]
    IN  IF behaviour = "promise"
        THEN [semaphore |-> aquire(s.semaphore, semiphores),
              runningSingleton |-> [k \in SemaphoreKeys |->
                                       IF k \in Range(semiphores) THEN n
                                       ELSE s.runningSingleton[k]],
              promises |-> Append(s.promises, [state |-> "pending", semiphores |-> semiphores,
                                                call |-> Len(s.calls) + 1]),
              calls |-> Append(s.calls, call)]
        ELSE [s EXCEPT !.semaphore = release(aquire(s.semaphore, semiphores), held),
                       !.calls = Append(@, call)]

\* A decorator that tests only the serialized keys for being busy.
SingletonByOwnKeys(s, method, arg, behaviour) ==
    IF \E i \in DOMAIN OwnKeys(method, arg) : isBusy(s.semaphore, OwnKeys(method, arg)[i])
    THEN Joined(s, method, arg)
    ELSE Applied(s, method, arg, behaviour, Semiphores(method, arg), Semiphores(method, arg))

\* A decorator without the finally block of lines 642-646.
SingletonNoFinally(s, method, arg, behaviour) ==
    IF \E i \in DOMAIN Semiphores(method, arg) : isBusy(s.semaphore, Semiphores(method, arg)[i])
    THEN Joined(s, method, arg)
    ELSE Applied(s, method, arg, behaviour, Semiphores(method, arg), <<>>)

\* The function the decorator puts in place of the method (lines 619-647).
Singleton(s, method, arg, behaviour) ==
    IF \E i \in DOMAIN Semiphores(method, arg) : isBusy(s.semaphore, Semiphores(method, arg)[i])
    THEN Joined(s, method, arg)
    ELSE Applied(s, method, arg, behaviour, Semiphores(method, arg), Semiphores(method, arg))

\* result.finally(...), lines 630-635: the promise settles, its
\* runningSingleton entries are deleted and its semaphores released.
Finally(s, n, outcome) ==
    LET semiphores == s.promises[n].semiphores
    IN  [s EXCEPT !.promises[n].state = outcome,
                  !.runningSingleton = [k \in SemaphoreKeys |->
                                           IF k \in Range(semiphores) THEN 0 ELSE @[k]],
                  !.semaphore = release(@, semiphores)]

SingletonRest ==
    <<resourceRegistry, prIn, prOut, resVars, regOut, qryIn, qryOut, instance, domains, instances,
      version>>

SingletonCall(method, arg, behaviour) ==
    /\ Len(singleton.calls) < MaxSingletonCalls
    /\ singleton' = Singleton(singleton, method, arg, behaviour)
    /\ UNCHANGED SingletonRest

SingletonSettle(n, outcome) ==
    /\ n \in Pending(singleton)
    /\ singleton' = Finally(singleton, n, outcome)
    /\ UNCHANGED SingletonRest

ResourceAtRest ==
    /\ resourceRegistry = setup
    /\ prIn = NoCall
    /\ prOut = NoCall
    /\ index = EmptyIndex
    /\ files = [p \in {} |-> 0]
    /\ sidecars = NoSidecars
    /\ tasks = [t \in TaskIds |-> FreeTask]
    /\ batches = "idle"
    /\ pending = {}
    /\ ops = NoOp
    /\ hist = [calls |-> 0, imported |-> {}, last |-> NoLast]
    /\ regOut = "none"
    /\ qryIn = NoCall
    /\ qryOut = NoCall
    /\ instance = NoInstance
    /\ domains = NoDomains

InitSingleton ==
    /\ ResourceAtRest
    /\ singleton = SingletonIdle
    /\ instances = NoInstances
    /\ version = NoVersion

NextSingleton ==
    \/ \E method \in SingletonMethods, arg \in UserIds, behaviour \in Behaviours :
          SingletonCall(method, arg, behaviour)
    \/ \E n \in 1..MaxSingletonCalls, outcome \in {"fulfilled", "rejected"} :
          SingletonSettle(n, outcome)

SpecSingleton == InitSingleton /\ [][NextSingleton]_vars

(***************************************************************************)
(* InstanceService.editInstance, the instance mutation of the store and    *)
(* the subscriber that saves the instance file. Of an instance the name,   *)
(* the server, the runtime and the memory settings are modelled.           *)
(***************************************************************************)
MaxEdits == 2

InstancePaths == {"/a", "/b"}
RuntimeKeys == {"minecraft", "forge", "liteloader"}

\* A key the payload does not have, and a value that is not a string.
Absent == "absent"
NonString == "non-string"
IsString(v) == v \notin {Absent, NonString}

NoServer == [kind |-> "undefined", host |-> "", port |-> 0]
NullServer == [kind |-> "null", host |-> "", port |-> 0]
\* port 0: the port is left out.
Server(host, port) == [kind |-> "server", host |-> host, port |-> port]

Undefined == [kind |-> "undefined", n |-> 0]
Number(n) == [kind |-> "number", n |-> n]
NotANumber == [kind |-> "string", n |-> 0]

NoRuntime == [k \in RuntimeKeys |-> Absent]

\* An options object with no key but instancePath ("": left out).
NoOptions(instancePath) ==
    [instancePath |-> instancePath, given |-> {}, name |-> "", server |-> NoServer,
     runtime |-> NoRuntime, minMemory |-> Undefined, maxMemory |-> Undefined]

\* The payload of the instance mutation.
NoSettings(path) ==
    [path |-> path, given |-> {}, name |-> "", server |-> NoServer,
     runtime |-> NoRuntime, minMemory |-> 0, maxMemory |-> 0]

\* Lines 662-670: maxMemory. A number that is falsy takes the throwing branch.
EditMaxMemory(state, options, result) ==
    IF ~("maxMemory" \in options.given /\ options.maxMemory # Number(state.maxMemory))
    THEN [threw |-> FALSE, result |-> result]
    ELSE IF options.maxMemory.kind = "undefined"
    THEN [threw |-> FALSE,
          result |-> [result EXCEPT !.given = @ \cup {"maxMemory"}, !.maxMemory = 0]]
    ELSE IF options.maxMemory.kind = "number" /\ options.maxMemory.n # 0
    THEN [threw |-> FALSE,
          result |-> [result EXCEPT !.given = @ \cup {"maxMemory"},
                                    !.maxMemory = IF options.maxMemory.n > 0
                                                  THEN options.maxMemory.n ELSE 0]]
    ELSE [threw |-> TRUE, result |-> result]

\* Lines 671-679: minMemory.
EditMinMemory(state, options, result) ==
    IF ~("minMemory" \in options.given /\ options.minMemory # Number(state.minMemory))
    THEN [threw |-> FALSE, result |-> result]
    ELSE IF options.minMemory.kind = "undefined"
    THEN [threw |-> FALSE,
          result |-> [result EXCEPT !.given = @ \cup {"minMemory"}, !.minMemory = 0]]
    ELSE IF options.minMemory.kind = "number"
    THEN [threw |-> FALSE,
          result |-> [result EXCEPT !.given = @ \cup {"minMemory"},
                                    !.minMemory = IF options.minMemory.n > 0
                                                  THEN options.minMemory.n ELSE 0]]
    ELSE [threw |-> TRUE, result |-> result]

\* Lines 681-697: the versions of options.runtime that differ from the
\* current ones.
EditRuntime(state, options, result) ==
    LET resultRuntime == [k \in RuntimeKeys |->
                             IF options.runtime[k] # Absent /\ options.runtime[k] # state.runtime[k]
                             THEN options.runtime[k] ELSE Absent]
    IN  IF "runtime" \in options.given /\ resultRuntime # NoRuntime
        THEN [result EXCEPT !.given = @ \cup {"runtime"}, !.runtime = resultRuntime]
        ELSE result

\* Lines 699-707: the server.
EditServer(state, options, result) ==
    IF "server" \notin options.given THEN result
    ELSE IF options.server.kind = "server"
    THEN IF options.server.host # state.server.host \/ options.server.port # state.server.port
         THEN [result EXCEPT !.given = @ \cup {"server"}, !.server = options.server]
         ELSE result
    ELSE IF state.server.kind # "undefined"
    THEN [result EXCEPT !.given = @ \cup {"server"}, !.server = options.server]
    ELSE result

\* Lines 651-660: the keys that are not ignored; of these the name is modelled.
EditName(state, options, result) ==
    IF "name" \in options.given /\ options.name # state.name
    THEN [result EXCEPT !.given = @ \cup {"name"}, !.name = options.name]
    ELSE result

\* editInstance(options) up to its commit: the payload, whether it is
\* committed, whether the call threw.
editInstance(all, selected, options) ==
    LET instancePath == IF options.instancePath # "" THEN options.instancePath ELSE selected
        state == all[instancePath]
        r1 == EditName(state, options, NoSettings(instancePath))
        r2 == EditMaxMemory(state, options, r1)
        r3 == EditMinMemory(state, options, r2.result)
        r4 == EditRuntime(state, options, r3.result)
        r5 == EditServer(state, options, r4)
    IN  IF r2.threw \/ r3.threw
        THEN [threw |-> TRUE, commit |-> FALSE, settings |-> NoSettings(instancePath)]
        ELSE [threw |-> FALSE, commit |-> r5.given # {}, settings |-> r5]

\* The instance mutation, lines 211-221: the server.
MutateServer(inst, settings) ==
    IF "server" \in settings.given /\ settings.server.kind = "server"
    THEN IF inst.server.kind = "server"
         THEN Server(IF settings.server.host # "" THEN settings.server.host ELSE inst.server.host,
                     IF settings.server.port # 0 THEN settings.server.port ELSE inst.server.port)
         ELSE Server(settings.server.host, settings.server.port)
    ELSE inst.server

\* A mutation that resets the related versions after it has taken the
\* versions of the payload.
MutateRuntimeResetLast(inst, settings) ==
    IF "runtime" \notin settings.given THEN inst.runtime
    ELSE LET versions == settings.runtime
             taken == [k \in RuntimeKeys |->
                         IF k # "minecraft" /\ IsString(versions[k]) THEN versions[k]
                         ELSE inst.runtime[k]]
         IN  IF IsString(versions["minecraft"])
                /\ inst.runtime["minecraft"] # versions["minecraft"]
             THEN [k \in RuntimeKeys |-> IF k = "minecraft" THEN versions["minecraft"] ELSE ""]
             ELSE taken

\* The instance mutation, lines 223-239: the runtime.
MutateRuntime(inst, settings) ==
    IF "runtime" \notin settings.given THEN inst.runtime
    ELSE LET versions == settings.runtime
             reset == IF IsString(versions["minecraft"])
                         /\ inst.runtime["minecraft"] # versions["minecraft"]
                      THEN [k \in RuntimeKeys |->
                               IF k = "minecraft" THEN versions["minecraft"] ELSE ""]
                      ELSE inst.runtime
         IN  [k \in RuntimeKeys |->
                IF k # "minecraft" /\ IsString(versions[k]) THEN versions[k] ELSE reset[k]]

\* The instance mutation of the store, lines 197-257.
mutationInstance(all, selected, settings) ==
    LET path == IF settings.path # "" THEN settings.path ELSE selected
        inst == all[path]
    IN  [all EXCEPT ![path] =
            [name |-> IF "name" \in settings.given THEN settings.name ELSE inst.name,
             server |-> MutateServer(inst, settings),
             runtime |-> MutateRuntime(inst, settings),
             minMemory |-> IF "minMemory" \in settings.given
                           THEN (IF settings.minMemory > 0 THEN settings.minMemory ELSE 0)
                           ELSE inst.minMemory,
             maxMemory |-> IF "maxMemory" \in settings.given
                           THEN (IF settings.maxMemory > 0 THEN settings.maxMemory ELSE 0)
                           ELSE inst.maxMemory]]

\* The subscriber of the instance mutation, lines 407-410: the instance
\* selected is handed to saveTo.
SubscriberInstance(all, selected) == [path |-> selected, data |-> all[selected]]

InstancesRest ==
    <<resourceRegistry, prIn, prOut, resVars, regOut, qryIn, qryOut, instance, domains, singleton,
      version>>

EditInstance(options) ==
    /\ instances.edits < MaxEdits
    /\ LET e == editInstance(instances.all, instances.path, options)
           all == IF e.commit THEN mutationInstance(instances.all, instances.path, e.settings)
                  ELSE instances.all
       IN  instances' =
             [instances EXCEPT
                !.all = all,
                !.saving = IF e.commit THEN Append(@, SubscriberInstance(all, instances.path))
                           ELSE @,
                !.edits = @ + 1,
                !.last = [options |-> options, target |-> e.settings.path, threw |-> e.threw,
                          commit |-> e.commit, before |-> instances.all]]
    /\ UNCHANGED InstancesRest

\* instanceFile.saveTo(path, data) writes the file; the saves complete in
\* the order they were started.
SaveTo ==
    /\ instances.saving # <<>>
    /\ instances' = [instances EXCEPT
                        !.files[Head(instances.saving).path] = Head(instances.saving).data,
                        !.saving = Tail(@)]
    /\ UNCHANGED InstancesRest

Versions == {"", "1", "2"}
Memories == {Undefined, Number(-1), Number(0), Number(2), NotANumber}
Servers == {NoServer, NullServer, Server("h1", 1), Server("h2", 0), Server("h1", 2)}

EditOptions ==
    { o \in [instancePath : {""} \cup InstancePaths, given : SUBSET {"name", "server"},
             name : {"n1", "n2"}, server : Servers, runtime : {NoRuntime},
             minMemory : {Undefined}, maxMemory : {Undefined}] :
        /\ "name" \notin o.given => o.name = "n1"
        /\ "server" \notin o.given => o.server = NoServer }
    \cup
    { o \in [instancePath : {""} \cup InstancePaths, given : {{"runtime"}},
             name : {"n1"}, server : {NoServer},
             runtime : [RuntimeKeys -> Versions \cup {Absent}],
             minMemory : {Undefined}, maxMemory : {Undefined}] : TRUE }
    \cup
    { o \in [instancePath : {""} \cup InstancePaths,
             given : {{"minMemory"}, {"maxMemory"}, {"minMemory", "maxMemory"}},
             name : {"n1"}, server : {NoServer}, runtime : {NoRuntime},
             minMemory : Memories, maxMemory : Memories] :
        /\ "minMemory" \notin o.given => o.minMemory = Undefined
        /\ "maxMemory" \notin o.given => o.maxMemory = Undefined }

\* Two instances as loaded from their files, one with a server.
LoadedInstances ==
    [p \in InstancePaths |->
        [name |-> "n1",
         server |-> IF p = "/a" THEN Server("h1", 1) ELSE NoServer,
         runtime |-> [k \in RuntimeKeys |-> "1"],
         minMemory |-> 0, maxMemory |-> 2]]

InitInstances ==
    /\ ResourceAtRest
    /\ version = NoVersion
    /\ singleton = NoSingleton
    /\ \E selected \in InstancePaths :
          instances = [all |-> LoadedInstances, path |-> selected, files |-> LoadedInstances,
                       saving |-> <<>>, edits |-> 0,
                       last |-> [options |-> NoOptions(""), target |-> "", threw |-> FALSE,
                                 commit |-> FALSE, before |-> LoadedInstances]]

NextInstances ==
    \/ \E options \in EditOptions : EditInstance(options)
    \/ SaveTo

SpecInstances == InitInstances /\ [][NextInstances]_vars

(***************************************************************************)
(* The instance mutation committed with any runtime payload.               *)
(***************************************************************************)
RuntimeSettings ==
    { [NoSettings(path) EXCEPT !.given = {"runtime"}, !.runtime = versions] :
        path \in {"", "/a"},
        versions \in { v \in [RuntimeKeys -> {Absent, NonString, "", "1", "2"}] :
                          v["minecraft"] # "" } }

\* commit('instance', settings): the mutation, then its subscriber.
CommitInstance(settings) ==
    /\ instances.edits < MaxEdits
    /\ LET all == mutationInstance(instances.all, instances.path, settings)
       IN  instances' =
             [instances EXCEPT
                !.all = all,
                !.saving = <<SubscriberInstance(all, instances.path)>>,
                !.edits = @ + 1,
                !.last = [settings |-> settings,
                          target |-> IF settings.path # "" THEN settings.path
                                     ELSE instances.path,
                          before |-> instances.all]]
    /\ UNCHANGED InstancesRest

InitMutation ==
    /\ ResourceAtRest
    /\ version = NoVersion
    /\ singleton = NoSingleton
    /\ \E selected \in InstancePaths :
          instances = [all |-> LoadedInstances, path |-> selected, files |-> LoadedInstances,
                       saving |-> <<>>, edits |-> 0,
                       last |-> [settings |-> NoSettings(""), target |-> selected,
                                 before |-> LoadedInstances]]

NextMutation ==
    \/ \E settings \in RuntimeSettings : CommitInstance(settings)
    \/ SaveTo

SpecMutation == InitMutation /\ [][NextMutation]_vars

(***************************************************************************)
(* Selecting instances: createInstance, mountInstance and deleteInstance   *)
(* of InstanceService, the instanceAdd, instanceRemove and instanceSelect  *)
(* mutations, and mountInstanceSaves of InstanceSavesService, which the    *)
(* instanceSelect mutation triggers. The calls of InstanceService are      *)
(* taken one after the other; mountInstanceSaves runs in steps.            *)
(***************************************************************************)
MaxMountCalls == 3

InstancePool == {"/a", "/b", "/c"}

NoMount == [pc |-> "idle", path |-> "", promise |-> 0]

\* The instanceSelect mutation, lines 189-196; it throws on its last line
\* when no instance is at the path selected.
instanceSelect(st, id) ==
    LET path == IF id \in Range(st.all) THEN id
                ELSE IF st.path = "" /\ st.all # <<>> THEN st.all[1]
                ELSE st.path
    IN  [st |-> [st EXCEPT !.path = path], threw |-> path \notin Range(st.all)]

\* The instanceRemove mutation, lines 184-188.
instanceRemove(st, id) ==
    LET Other(p) == p # id
    IN  [st EXCEPT !.all = SelectSeq(st.all, Other)]

\* The instanceAdd mutation, lines 174-183.
instanceAdd(st, path) ==
    IF path \in Range(st.all) THEN st ELSE [st EXCEPT !.all = Append(st.all, path)]

\* mountInstanceSaves(path) called through its decorator, up to the first
\* await of the method: c is the pair of the two services' states.
mountInstanceSaves(c, path) ==
    LET sgl == Singleton(c.singleton, "mountInstanceSaves", path, "promise")
        call == sgl.calls[Len(sgl.calls)]
    IN  IF ~call.ran THEN [c EXCEPT !.singleton = sgl]
        ELSE IF c.instances.watching = path
        THEN [c EXCEPT !.singleton = Finally(sgl, call.promise, "fulfilled")]
        ELSE [singleton |-> sgl,
              instances |-> [c.instances EXCEPT !.watcher = FALSE,
                                                !.mount = [pc |-> "read", path |-> path,
                                                           promise |-> call.promise]]]

\* commit('instanceSelect', path): the mutation, then the trigger onInstance
\* of InstanceSavesService (lines 127-130) when the mutation did not throw.
commitInstanceSelect(c, path) ==
    LET m == instanceSelect(c.instances, path)
        after == [c EXCEPT !.instances = m.st]
    IN  IF m.threw THEN after ELSE mountInstanceSaves(after, path)

\* mountInstance(path), lines 591-608.
mountInstance(c, path) ==
    IF path = c.instances.path THEN c
    ELSE IF path \notin c.instances.dirs THEN c
    ELSE commitInstanceSelect(c, path)

\* createInstance(payload), lines 548-580, for the path the instance gets.
createInstance(c, path) ==
    [c EXCEPT !.instances = instanceAdd([c.instances EXCEPT !.dirs = @ \cup {path}], path)]

\* createAndMount(payload), lines 585-590.
createAndMount(c, path) == mountInstance(createInstance(c, path), path)

\* deleteInstance(path), lines 614-637; fresh is the path createAndMount
\* gives the instance it creates.
deleteInstance(c, path, fresh) ==
    LET Other(p) == p # path
        restPath == SelectSeq(c.instances.all, Other)
        mounted == IF c.instances.path # path THEN c
                   ELSE IF restPath = <<>> THEN createAndMount(c, fresh)
                   ELSE mountInstance(c, restPath[1])
    IN  [mounted EXCEPT !.instances = [instanceRemove(mounted.instances, path)
                                          EXCEPT !.dirs = @ \ {path}]]

Services == [singleton |-> singleton, instances |-> instances]

MountRest ==
    <<resourceRegistry, prIn, prOut, resVars, regOut, qryIn, qryOut, instance, domains, version>>

MountCalled(c, kind, path) ==
    /\ singleton' = c.singleton
    /\ instances' = [c.instances EXCEPT !.calls = @ + 1,
                                        !.last = [kind |-> kind, path |-> path,
                                                  before |-> instances.all]]
    /\ UNCHANGED MountRest

CreateInstance(path) ==
    /\ instances.calls < MaxMountCalls
    /\ path \notin Range(instances.all)
    /\ MountCalled(createInstance(Services, path), "createInstance", path)

MountInstance(path) ==
    /\ instances.calls < MaxMountCalls
    /\ MountCalled(mountInstance(Services, path), "mountInstance", path)

DeleteInstance(path) ==
    /\ instances.calls < MaxMountCalls
    /\ path \in Range(instances.all)
    /\ \E fresh \in InstancePool \ Range(instances.all) :
          MountCalled(deleteInstance(Services, path, fresh), "deleteInstance", path)

\* Somebody else removes the directory of an instance.
RemoveDirectory(path) ==
    /\ instances.calls < MaxMountCalls
    /\ path \in instances.dirs
    /\ MountCalled([Services EXCEPT !.instances.dirs = @ \ {path}], "removeDirectory", path)

\* mountInstanceSaves from its first await to its end, lines 152-187: the
\* saves are read and committed and the directory is watched, or reading
\* fails and the call rejects; the promise settles.
MountSavesRead ==
    /\ instances.mount.pc = "read"
    /\ \/ /\ instances' = [instances EXCEPT !.dirs = @ \cup {instances.mount.path},
                                             !.saves = instances.mount.path,
                                             !.watching = instances.mount.path,
                                             !.watcher = TRUE,
                                             !.mount = NoMount]
          /\ singleton' = Finally(singleton, instances.mount.promise, "fulfilled")
       \/ /\ instances' = [instances EXCEPT !.mount = NoMount]
          /\ singleton' = Finally(singleton, instances.mount.promise, "rejected")
    /\ UNCHANGED MountRest

\* The instances as load() and init() leave them: an instance selected, its
\* saves mounted.
InitMount ==
    /\ ResourceAtRest
    /\ version = NoVersion
    /\ singleton = SingletonIdle
    /\ \E all \in {<<"/a">>, <<"/a", "/b">>}, selected \in InstancePool :
          /\ selected \in Range(all)
          /\ instances = [all |-> all, path |-> selected, dirs |-> Range(all),
                          saves |-> selected, watching |-> selected, watcher |-> TRUE,
                          mount |-> NoMount, calls |-> 0,
                          last |-> [kind |-> "none", path |-> "", before |-> all]]

NextMount ==
    \/ \E path \in InstancePool : CreateInstance(path)
    \/ \E path \in InstancePool : MountInstance(path)
    \/ \E path \in InstancePool : DeleteInstance(path)
    \/ \E path \in InstancePool : RemoveDirectory(path)
    \/ MountSavesRead

SpecMount == InitMount /\ [][NextMount]_vars

(***************************************************************************)
(* Properties of the resolver.                                             *)
(***************************************************************************)
ParseDone == prOut.status = "done"
Opened == ParseDone /\ prIn.archive.open

TypesOf(seq) == [i \in 1..Len(seq) |-> seq[i].type]

Accepted(entry) == entry.type = "unknown" \/ entry.type \in prIn.archive.accepts

\* The position of the first candidate that accepts the archive (0: none).
FirstAccepted(chains) ==
    IF \E i \in 1..Len(chains) : Accepted(chains[i])
    THEN CHOOSE i \in 1..Len(chains) :
            Accepted(chains[i]) /\ \A j \in 1..(i - 1) : ~Accepted(chains[j])
    ELSE 0

\* C4: the candidates are tried in list order; the first one whose
\* parseMetadata succeeds gives the result, and parseMetadata is called on no
\* later candidate. With candidates [forge, fabric, unknown], forge rejecting
\* and fabric accepting, the result is fabric.
FallbackOrdering ==
    Opened =>
        LET w == FirstAccepted(prOut.chains)
        IN  /\ w > 0
            /\ prOut.result.type = prOut.chains[w].type
            /\ prOut.result.called = SubSeq(TypesOf(prOut.chains), 1, w)
            /\ ( /\ TypesOf(prOut.chains) = <<"forge", "fabric", "unknown">>
                 /\ "forge" \notin prIn.archive.accepts
                 /\ "fabric" \in prIn.archive.accepts
                 => prOut.result.type = "fabric" )

FallbackOrderingWitness ==
    /\ Opened
    /\ TypesOf(prOut.chains) = <<"forge", "fabric", "unknown">>
    /\ "forge" \notin prIn.archive.accepts
    /\ "fabric" \in prIn.archive.accepts
    /\ prOut.result.type = "fabric"
    /\ prOut.result.called = <<"forge", "fabric">>

Wanted(r) ==
    IF prIn.typeHint \in {NoHint, "", "*"} THEN r.ext = prIn.ext
    ELSE r.type = prIn.typeHint \/ r.domain = prIn.typeHint

PositionIn(seq, e) == CHOOSE i \in 1..Len(seq) : seq[i] = e

CandidateList ==
    Opened =>
        LET n == Len(prOut.chains)
            front == SubSeq(prOut.chains, 1, n - 1)
        IN  /\ n >= 1
            /\ prOut.chains[n] = UNKNOWN_ENTRY
            /\ Range(front) = { r \in Range(prOut.before) : Wanted(r) }
            /\ \A i, j \in 1..(n - 1) :
                  i < j => PositionIn(prOut.before, front[i]) < PositionIn(prOut.before, front[j])
            /\ resourceRegistry = prOut.before
            /\ resourceRegistry = setup

CandidateListWitness ==
    /\ Opened
    /\ prIn.typeHint = "mods"
    /\ prIn.ext = ".zip"
    /\ TypesOf(prOut.chains) = <<"forge", "liteloader", "fabric", "unknown">>

\* C21: a failing parseIcon is not a failure of the candidate: when the
\* parseMetadata of a candidate is the first to succeed and its parseIcon
\* fails, the result is that candidate's type and metadata, with no icon.
IconFails == Opened /\ prIn.archive.icon = "reject"

IconFailureSwallowed ==
    IconFails =>
        LET w == FirstAccepted(prOut.chains)
        IN  /\ w > 0
            /\ prOut.result.status = "resolved"
            /\ prOut.result.type = prOut.chains[w].type
            /\ prOut.result.domain = prOut.chains[w].domain
            /\ prOut.result.metadata = parseMetadata(prOut.chains[w], prIn.archive).metadata
            /\ prOut.result.icon = NoIcon

IconFailureSwallowedWitness ==
    /\ IconFails
    /\ Len(prOut.chains) > 2
    /\ FirstAccepted(prOut.chains) = 1
    /\ prOut.chains[2].type \in prIn.archive.accepts
    /\ prOut.result.type = "forge"
    /\ prOut.result.metadata = "meta:forge"
    /\ prOut.result.icon = NoIcon

(***************************************************************************)
(* Properties of the resource service.                                     *)
(***************************************************************************)
\* The task imports a path again: an import of that path has completed,
\* and since then only imports and renames were called.
Again(t) == InFlight(t) /\ tasks[t].clean /\ tasks[t].path \in tasks[t].prior

StepOf(t) == InFlight(t) /\ tasks'[t].pc # tasks[t].pc

ReturnsIndexed(t) ==
    /\ ~tasks[t].imported
    /\ tasks[t].res \in Indexed(index)
    /\ tasks[t].res.hash = sha1(files[tasks[t].path].data)

AgainLeavesAll(t) ==
    /\ index' = index
    /\ sidecars' = sidecars
    /\ files' = files
    /\ Cardinality(Indexed(index')) = Cardinality(Indexed(index))

\* C1: importing a file again, unchanged, reports imported = false, returns
\* the resource already indexed, persists nothing and leaves the index as
\* it is.
IdempotentImport ==
    [][\A t \in TaskIds :
         Again(t) /\ tasks[t].owner = Single /\ StepOf(t) =>
           /\ AgainLeavesAll(t)
           /\ tasks'[t].pc = "resolved" => ReturnsIndexed(t)']_vars

IdempotentImportWitness ==
    /\ hist.last.kind = "import"
    /\ hist.last.clean
    /\ hist.last.path \in hist.last.prior
    /\ ~hist.last.imported
    /\ hist.last.res \in Indexed(index)
    /\ HasKey(index, ToString(files[hist.last.path].ino))

\* C2: the same bytes imported one after the other from two paths: the
\* second import reports imported = false, one resource of that content is
\* indexed, and it is reachable by the urls given with the second import as
\* well.
SameBytesBefore ==
    /\ hist.last.kind = "import"
    /\ hist.last.clean
    /\ hist.last.path \notin hist.last.prior
    /\ \E q \in hist.last.prior : files[q].data = files[hist.last.path].data

DedupBothUris ==
    SameBytesBefore =>
        /\ ~hist.last.imported
        /\ Cardinality({ r \in Indexed(index) : r.hash = hist.last.res.hash }) = 1
        /\ \A u \in Range(hist.last.url) :
              HasKey(index, u) /\ index[u].hash = hist.last.res.hash

\* C3: of two imports of the same content in flight together, at most one
\* persists and reports imported = true.
SingleFlight ==
    \A t, u \in TaskIds :
        /\ t # u
        /\ tasks[t].pc = "resolved" /\ tasks[t].imported
        /\ tasks[u].pc = "resolved" /\ tasks[u].imported
        => tasks[t].res.hash # tasks[u].res.hash

\* C7: an import that fails leaves the index as it was; the index changes
\* only when the task has persisted its resource, and what is indexed
\* carries a hash and a path.
ChangedKeys == { k \in DOMAIN index' : ~HasKey(index, k) \/ index[k] # index'[k] }

IndexAfterPersist ==
    /\ [](\A k \in DOMAIN index : index[k].hash # "" /\ index[k].path # "")
    /\ [][\A t \in TaskIds :
            tasks[t].owner = Single /\ StepOf(t) =>
              \/ index' = index
              \/ /\ tasks[t].pc = "resolved"
                 /\ tasks[t].imported
                 /\ DOMAIN index \subseteq DOMAIN index'
                 /\ \A k \in ChangedKeys : index'[k] = tasks[t].res
                 /\ tasks[t].res.path = ManagedPath(tasks[t].res.hash)]_vars

IndexAfterPersistWitness ==
    \E t \in TaskIds :
        /\ tasks[t].owner = Single
        /\ tasks[t].pc = "rejected"
        /\ tasks[t].res.type = "forge"
        /\ ~HasKey(index, tasks[t].res.hash)
        /\ index # EmptyIndex

\* C8: when one file of importResources fails, the other files that were
\* persisted are indexed all the same.
BatchFailureIsolation ==
    hist.last.kind = "dropped" /\ hist.last.imported => HasKey(index, hist.last.res.hash)

\* C9: after removeResource(R) no key of the index maps to R.
RemoveDropsEveryKey ==
    hist.last.kind = "remove" => \A k \in DOMAIN index : index[k] # hist.last.res

\* C10: after rename, refresh or touch produced a new record, no key of the
\* index maps to the record it supersedes.
SupersededReplaced ==
    hist.last.kind \in {"rename", "touch", "refresh"} /\ hist.last.new # hist.last.res
    => \A k \in DOMAIN index : index[k] # hist.last.res

\* The index held only resources that are persisted as they are indexed.
Persisted(idx) ==
    /\ idx # EmptyIndex
    /\ \A r \in Indexed(idx) :
          /\ r.path \in DOMAIN sidecars
          /\ sidecars[r.path] = Sidecar(r)
          /\ r.path \in DOMAIN files
          /\ sha1(files[r.path].data) = r.hash

LoadSettled == hist.last.kind = "load" /\ \A p \in pending : p.kind # "ino"

\* C11: the index load() builds from the disk has the keys the index in
\* memory had, each mapping to a resource of the same hash.
Recoverability ==
    LoadSettled /\ Persisted(hist.last.before) =>
        /\ DOMAIN index = DOMAIN hist.last.before
        /\ \A k \in DOMAIN index : index[k].hash = hist.last.before[k].hash

LoadCalled == hist.last.kind \in {"load", "loadFailed"}

GoodSidecars == { p \in DOMAIN sidecars : sidecars[p].path \in DOMAIN files }

\* C12: load() completes whatever one sidecar is like, and indexes every
\* resource whose sidecar and content file are there.
CorruptionRecovery ==
    LoadCalled =>
        /\ hist.last.kind = "load"
        /\ \A p \in GoodSidecars : HasKey(index, sidecars[p].hash)

InoKnown(t) ==
    /\ tasks[t].pc = "stat"
    /\ tasks[t].path \in DOMAIN files
    /\ ~files[tasks[t].path].dir
    /\ HasKey(index, ToString(files[tasks[t].path].ino))

\* C13: when the inode of the file is a key of the index, the task returns
\* the resource under that key with imported = false, having read nothing
\* and persisted nothing (or stat itself failed).
InodeShortCircuit ==
    [][\A t \in TaskIds :
         InoKnown(t) /\ StepOf(t) =>
           \/ tasks'[t].pc = "rejected"
           \/ /\ tasks'[t].pc = "resolved"
              /\ ~tasks'[t].imported
              /\ tasks'[t].res = index[ToString(files[tasks[t].path].ino)]
              /\ tasks'[t].data = 0
              /\ UNCHANGED <<index, files, sidecars>>]_vars

InodeShortCircuitWitness ==
    \E t \in TaskIds :
        /\ tasks[t].pc = "resolved"
        /\ ~tasks[t].imported
        /\ tasks[t].data = 0
        /\ tasks[t].path \in DOMAIN files
        /\ HasKey(index, ToString(files[tasks[t].path].ino))
        /\ index[ToString(files[tasks[t].path].ino)] = tasks[t].res

OfDirectory(t) ==
    /\ InFlight(t)
    /\ tasks[t].owner = Single
    /\ tasks[t].path \in DOMAIN files
    /\ files[tasks[t].path].dir

\* C14: importResource of a directory is rejected at the stat, the caller
\* gets the error, and no step of the call changes the index or the disk.
DirectoryRejection ==
    [][\A t \in TaskIds :
         OfDirectory(t) /\ StepOf(t) =>
           /\ tasks[t].pc = "stat" => tasks'[t].pc = "rejected"
           /\ tasks[t].pc # "stat" =>
                 /\ tasks[t].pc = "rejected"
                 /\ tasks'[t].pc = "free"
                 /\ hist'.last.kind = "importFailed"
           /\ UNCHANGED <<index, files, sidecars>>]_vars

DirectoryRejectionWitness ==
    /\ hist.last.kind = "importFailed"
    /\ hist.last.path = PathDir
    /\ index # EmptyIndex
    /\ DOMAIN sidecars # {}

Unreadable == hist.last.kind \in {"touchUnreadable", "refreshUnreadable"}

\* C20: when touchResource or refreshResource could not read the file of a
\* resource, the call ends with no key of the index mapping to the resource
\* and with its content file and sidecar gone.
RefreshDestroys ==
    Unreadable =>
        /\ \A k \in DOMAIN index : index[k] # hist.last.res
        /\ hist.last.res.path \notin DOMAIN files
        /\ hist.last.res.path \notin DOMAIN sidecars

\* C18: every resource some key of the index maps to is the value of its
\* own hash key.
ReachableByHash ==
    \A r \in Indexed(index) : HasKey(index, r.hash) /\ index[r.hash] = r

\* An import has written the files of the hash anew: its task has
\* persisted them, or importResource has returned the resource.
Reimported(hash) ==
    \/ \E t \in TaskIds :
          tasks[t].pc = "resolved" /\ tasks[t].imported /\ tasks[t].res.hash = hash
    \/ /\ hist.last.kind = "import"
       /\ hist.last.imported
       /\ hist.last.res.hash = hash
       /\ HasKey(index, hash)

\* C28: removeResource(R) followed by an import of the same content: the
\* discard that removeResource started never deletes the files the import
\* has written, so that the resource ends up indexed and persisted.
ReimportSurvivesDiscard ==
    [][\A p \in pending :
         p.kind = "discard" /\ Discard(p) /\ Reimported(p.res.hash)
         => /\ ManagedPath(p.res.hash) \in DOMAIN files'
            /\ ManagedPath(p.res.hash) \in DOMAIN sidecars']_vars

\* C29: removeResource(A) leaves every key that maps to a resource of
\* another content mapping to that resource, also a source URI the two share.
RemovalSparesOthers ==
    [][\A k \in DOMAIN index :
         RemoveResource(k)
         => \A q \in DOMAIN index :
               index[q].hash # index[k].hash
               => q \in DOMAIN index' /\ index'[q] = index[q]]_vars

\* C30: when load() returns, every resource it loaded is reachable by its
\* inode key.
InoKeysAfterLoad ==
    hist.last.kind = "load" =>
        \A r \in Indexed(index) :
            HasKey(index, ToString(r.ino)) /\ index[ToString(r.ino)] = r

\* The hash keys under which the index held a resource that renameResource
\* had named.
RenamedHashes(idx) ==
    { h \in DOMAIN idx : idx[h].hash = h /\ idx[h].name \in NewNames }

\* C31: after renameResource(R, name), a restart and load() give for the
\* hash of R a resource with the new name.
RenameSurvivesRestart ==
    hist.last.kind = "load" =>
        \A h \in RenamedHashes(hist.last.before) :
            HasKey(index, h) /\ index[h].name = hist.last.before[h].name

(***************************************************************************)
(* Properties of the instance module.                                      *)
(***************************************************************************)
Occurrences(seq, r) == Cardinality({ i \in 1..Len(seq) : seq[i].hash = r.hash })

\* C15: adding a resource that is deployed leaves it in the list once, and
\* removing a resource that is not deployed leaves the list as it is; the
\* same for the resource packs.
DeploymentIdempotence ==
    [][/\ \A r \in Mods :
            /\ Occurrences(instance.mods, r) = 1 /\ CommitInstanceModAdd(<<r>>)
                 => Occurrences(instance'.mods, r) = 1
            /\ Occurrences(instance.mods, r) = 0 /\ CommitInstanceModRemove(<<r>>)
                 => instance'.mods = instance.mods
       /\ \A r \in Packs :
            /\ Occurrences(instance.resourcepacks, r) = 1 /\ CommitInstanceResourcepackAdd(<<r>>)
                 => Occurrences(instance'.resourcepacks, r) = 1
            /\ Occurrences(instance.resourcepacks, r) = 0 /\ CommitInstanceResourcepackRemove(<<r>>)
                 => instance'.resourcepacks = instance.resourcepacks]_vars

ItemHashes(items) == { items[i].hash : i \in 1..Len(items) }
HashesOf(seq) == { seq[i].hash : i \in 1..Len(seq) }

\* C16: the items are the resources of the mods domain, one each and in
\* that order; an item is enabled exactly when its hash is deployed; a
\* deployed hash whose resource is not in the domain has no item.
DerivedDeployment ==
    LET items == Items(domains.mods, instance.mods)
    IN  /\ Len(items) = Len(domains.mods)
        /\ \A i \in 1..Len(items) :
              /\ items[i].hash = domains.mods[i].hash
              /\ items[i].enabled <=> items[i].hash \in HashesOf(instance.mods)
        /\ \A h \in HashesOf(instance.mods) \ HashesOf(domains.mods) : h \notin ItemHashes(items)

DerivedDeploymentWitness ==
    LET items == Items(domains.mods, instance.mods)
    IN  /\ HashesOf(instance.mods) \ HashesOf(domains.mods) # {}
        /\ \E i \in 1..Len(items) : ~items[i].enabled
        /\ \E i \in 1..Len(items) : items[i].enabled

(***************************************************************************)
(* Properties of the registry.                                             *)
(***************************************************************************)
Registered(type) == \E i \in 1..Len(resourceRegistry) : resourceRegistry[i].type = type

\* C17: the registry never holds two descriptors of one type; a
\* registration of a type that is there throws and leaves the registry as
\* it is, any other appends the descriptor.
RegistryUniqueness ==
    /\ [](\A i, j \in 1..Len(resourceRegistry) :
            resourceRegistry[i].type = resourceRegistry[j].type => i = j)
    /\ [][\A entry \in Registrable :
            RegisterResourceType(entry) =>
              IF Registered(entry.type)
              THEN regOut' = "threw" /\ resourceRegistry' = resourceRegistry
              ELSE regOut' = "returned" /\ resourceRegistry' = Append(resourceRegistry, entry)]_vars

RegistryUniquenessWitness ==
    /\ regOut = "threw"
    /\ Len(resourceRegistry) = Len(SetupEntries)
    /\ \E i \in 1..Len(resourceRegistry) : resourceRegistry[i] = OtherForgeEntry

(***************************************************************************)
(* Properties of getResource.                                              *)
(***************************************************************************)
QueryDone == qryOut.status = "done"

\* The urls of the query, in the order given.
UrlsOf(query) ==
    IF query.url.kind = "string" THEN <<query.url.value>>
    ELSE IF query.url.kind = "array" THEN query.url.values
    ELSE <<>>

UrlHits(query) == { i \in 1..Len(UrlsOf(query)) : HasKey(index, UrlsOf(query)[i]) }

FirstHit(query) == CHOOSE i \in UrlHits(query) : \A j \in UrlHits(query) : i <= j

\* C19: getResource returns what the hash key holds, else what the first
\* url that is a key holds, else what the inode key holds, else
\* UNKNOWN_RESOURCE; the index stays as it is.
QueryPriority ==
    /\ [](QueryDone =>
            qryOut.result =
              IF HasKey(index, qryIn.hash) THEN index[qryIn.hash]
              ELSE IF UrlHits(qryIn) # {} THEN index[UrlsOf(qryIn)[FirstHit(qryIn)]]
              ELSE IF HasKey(index, ToString(qryIn.ino)) THEN index[ToString(qryIn.ino)]
              ELSE UNKNOWN_RESOURCE)
    /\ [][GetResource => index' = index]_vars

QueryPriorityWitness ==
    /\ QueryDone
    /\ qryIn.hash # ""
    /\ ~HasKey(index, qryIn.hash)
    /\ Len(UrlsOf(qryIn)) = 2
    /\ UrlHits(qryIn) = {2}
    /\ HasKey(index, ToString(qryIn.ino))
    /\ index[ToString(qryIn.ino)] # qryOut.result
    /\ qryOut.result = index[UrlsOf(qryIn)[2]]


(***************************************************************************)
(* Properties of exportResource.                                           *)
(***************************************************************************)
ExportDone == qryOut.status = "exported"

\* What the reference stands for in the index the call found.
InIndex(ref) ==
    IF ref.kind = "string" THEN HasKey(qryOut.before, ref.key)
    ELSE ref.res \in Indexed(qryOut.before)

NotFound(ref) ==
    IF ref.kind = "string" THEN ~HasKey(qryOut.before, ref.key)
    ELSE ref.res = UNKNOWN_RESOURCE

ExportedOf(ref) == IF ref.kind = "string" THEN qryOut.before[ref.key] ELSE ref.res

\* C22 as stated: exportResource leaves the index as it is, and it fails
\* when one of the references does not resolve to an indexed resource.
ExportFailsUnlessIndexed ==
    ExportDone =>
        /\ index = qryOut.before
        /\ ( (\E i \in 1..Len(qryOut.resources) : ~InIndex(qryOut.resources[i]))
             => qryOut.threw )

\* C22, amended: exportResource leaves the index as it is; it fails exactly
\* when a string reference is no key of the index or a reference is
\* UNKNOWN_RESOURCE itself; otherwise it copies out the file of each
\* reference, a Resource object being exported as given.
ExportCopiesOut ==
    ExportDone =>
        /\ index = qryOut.before
        /\ qryOut.threw <=> \E i \in 1..Len(qryOut.resources) : NotFound(qryOut.resources[i])
        /\ ~qryOut.threw =>
              qryOut.copies = [i \in 1..Len(qryOut.resources) |->
                                  CopyOf(ExportedOf(qryOut.resources[i]))]

ExportCopiesOutWitness ==
    /\ ExportDone
    /\ Len(qryOut.resources) = 2
    /\ qryOut.resources[1].kind = "resource"
    /\ ~InIndex(qryOut.resources[1])
    /\ qryOut.resources[2] = KeyRef(UnknownUrl)
    /\ qryOut.threw
    /\ qryOut.copies = <<CopyOf(Stored(2, Url2))>>
    /\ index # EmptyIndex

(***************************************************************************)
(* Properties of the Singleton decorator.                                  *)
(***************************************************************************)
Calls == 1..Len(singleton.calls)

\* Call i applied the method and its promise was pending when call j came.
InFlightAt(i, j) ==
    /\ i < j
    /\ singleton.calls[i].ran
    /\ singleton.calls[i].promise \in singleton.calls[j].inflight

\* C23: while a call of a decorated method is in flight, a later call of
\* that method does not apply the method again and returns the promise of
\* the call in flight, which settles with the result of that call.
SingletonSingleFlight ==
    \A i, j \in Calls :
        InFlightAt(i, j) /\ singleton.calls[i].method = singleton.calls[j].method
        => /\ ~singleton.calls[j].ran
           /\ singleton.calls[j].returned = "promise"
           /\ singleton.calls[j].promise = singleton.calls[i].promise
           /\ singleton.promises[singleton.calls[j].promise].call = i

SingletonSingleFlightWitness ==
    /\ Len(singleton.calls) = 3
    /\ \A j \in Calls : singleton.calls[j].method = "removeUserProfile"
    /\ singleton.calls[1].arg = "u1" /\ singleton.calls[2].arg = "u1" /\ singleton.calls[3].arg = "u2"
    /\ InFlightAt(1, 2) /\ InFlightAt(1, 3)
    /\ singleton.calls[2].promise = 1 /\ singleton.calls[3].promise = 1
    /\ singleton.promises[1].state = "fulfilled"

\* C26: a call of a keyed method whose key differs from the key of every
\* call in flight applies the method for its own arguments and returns its
\* own promise.
KeyedIndependent ==
    \A j \in Calls :
        /\ singleton.calls[j].method = "removeUserProfile"
        /\ \A i \in Calls : InFlightAt(i, j) =>
               /\ singleton.calls[i].method = "removeUserProfile"
               /\ singleton.calls[i].arg # singleton.calls[j].arg
        => /\ singleton.calls[j].ran
           /\ singleton.calls[j].returned = "promise"
              => singleton.promises[singleton.calls[j].promise].call = j

\* The pending promises that hold the semaphore of the key.
Holders(k) == { n \in Pending(singleton) : k \in Range(singleton.promises[n].semiphores) }

\* C27: the semaphores and the runningSingleton entries are those of the
\* promises still pending: a settled promise, a synchronous throw and a
\* value returned leave nothing behind, and a call that comes when nothing
\* is in flight applies the method.
SingletonReleases ==
    /\ \A k \in SemaphoreKeys :
          /\ singleton.semaphore[k] = Cardinality(Holders(k))
          /\ IF Holders(k) = {} THEN singleton.runningSingleton[k] = 0
             ELSE singleton.runningSingleton[k] \in Holders(k)
    /\ \A j \in Calls : singleton.calls[j].inflight = {} => singleton.calls[j].ran

SingletonReleasesWitness ==
    /\ Len(singleton.calls) = 3
    /\ \A j \in Calls : singleton.calls[j].method = "refreshUser" /\ singleton.calls[j].ran
    /\ singleton.calls[1].returned = "promise"
    /\ singleton.promises[1].state = "rejected"
    /\ singleton.calls[2].returned = "threw"
    /\ singleton.calls[3].returned = "promise"
    /\ Pending(singleton) = {}

(***************************************************************************)
(* Properties of editInstance.                                             *)
(***************************************************************************)
\* An editInstance call has changed the instance it addressed and every
\* save started has completed.
EditSettled ==
    /\ instances.edits > 0
    /\ instances.last.commit
    /\ instances.all[instances.last.target] # instances.last.before[instances.last.target]
    /\ instances.saving = <<>>

\* C24: once editInstance has changed an instance, selected or addressed by
\* instancePath, and the subscribers have completed, the instance file of
\* that instance holds its in-memory state.
PersistedFollowsMemory ==
    EditSettled => instances.files[instances.last.target] = instances.all[instances.last.target]

\* C25: editInstance with the server option present but undefined or null,
\* on an instance that has a server, leaves the instance without a server.
DisablingServer ==
    /\ instances.edits > 0
    /\ "server" \in instances.last.options.given
    /\ instances.last.options.server.kind \in {"undefined", "null"}
    /\ instances.last.before[instances.last.target].server.kind = "server"
    /\ ~instances.last.threw
    => instances.all[instances.last.target].server = NoServer

(***************************************************************************)
(* Properties of the selection of instances.                               *)
(***************************************************************************)
\* C32: with an instance loaded, the path selected is the path of an
\* instance; after deleteInstance of the selected instance it is another
\* instance than the one deleted.
SelectedInstanceValid ==
    instances.all # <<>> =>
        /\ instances.path \in Range(instances.all)
        /\ instances.last.kind = "deleteInstance" => instances.path # instances.last.path

\* Call j of mountInstanceSaves came while an earlier call was in flight.
CameInFlight(j) ==
    /\ singleton.calls[j].method = "mountInstanceSaves"
    /\ singleton.calls[j].inflight # {}

\* C33: when instanceSelect(B) was committed while mountInstanceSaves(A) was
\* in flight, then once every call has settled (fulfilled) the directory
\* watched and the saves committed are those of the instance selected.
SavesFollowSelection ==
    /\ Pending(singleton) = {}
    /\ \A n \in 1..Len(singleton.promises) : singleton.promises[n].state = "fulfilled"
    /\ \E j \in Calls : CameInFlight(j) /\ singleton.calls[j].arg = instances.path
    => /\ instances.watching = instances.path
       /\ instances.saves = instances.path

(***************************************************************************)
(* Properties of the runtime and memory settings.                          *)
(***************************************************************************)
\* The instance mutation has received a runtime whose minecraft is a string
\* other than the current one.
MinecraftChanged ==
    /\ instances.edits > 0
    /\ "runtime" \in instances.last.settings.given
    /\ IsString(instances.last.settings.runtime["minecraft"])
    /\ instances.last.settings.runtime["minecraft"]
         # instances.last.before[instances.last.target].runtime["minecraft"]

\* C34: when the mutation receives a runtime whose minecraft string differs
\* from the current one, minecraft becomes the new value and every other
\* runtime field becomes the empty string, except the fields for which the
\* payload supplies a string, which take the value supplied.
MinecraftResetsRelated ==
    MinecraftChanged =>
        LET versions == instances.last.settings.runtime
            runtime == instances.all[instances.last.target].runtime
        IN  /\ runtime["minecraft"] = versions["minecraft"]
            /\ \A k \in RuntimeKeys \ {"minecraft"} :
                  runtime[k] = IF IsString(versions[k]) THEN versions[k] ELSE ""

MinecraftResetsRelatedWitness ==
    /\ MinecraftChanged
    /\ instances.last.settings.runtime =
          [k \in RuntimeKeys |-> IF k = "minecraft" THEN "2"
                                 ELSE IF k = "forge" THEN "1" ELSE Absent]
    /\ instances.last.before[instances.last.target].runtime = [k \in RuntimeKeys |-> "1"]
    /\ instances.all[instances.last.target].runtime =
          [k \in RuntimeKeys |-> IF k = "minecraft" THEN "2"
                                 ELSE IF k = "forge" THEN "1" ELSE ""]

EditDone == instances.edits > 0 /\ ~instances.last.threw

\* C35: after editInstance(options), the runtime of the instance holds, for
\* every key options.runtime supplies as a string, the value supplied.
RuntimeApplied ==
    EditDone /\ "runtime" \in instances.last.options.given =>
        \A k \in RuntimeKeys :
            IsString(instances.last.options.runtime[k])
            => instances.all[instances.last.target].runtime[k]
                 = instances.last.options.runtime[k]

\* What editInstance was given for a memory setting.
GivenMemory(key) ==
    IF key = "minMemory" THEN instances.last.options.minMemory
    ELSE instances.last.options.maxMemory

MemoryOf(inst, key) == IF key = "minMemory" THEN inst.minMemory ELSE inst.maxMemory

MemoryKeys == {"minMemory", "maxMemory"}

\* C36: editInstance throws only when maxMemory or minMemory is given and
\* is neither a number nor undefined; a number n given becomes n when
\* n > 0 and 0 otherwise; the memory settings are never negative.
MemorySettings ==
    instances.edits > 0 =>
        /\ instances.last.threw
           => \E key \in MemoryKeys \cap instances.last.options.given :
                 GivenMemory(key).kind = "string"
        /\ ~instances.last.threw
           => \A key \in MemoryKeys \cap instances.last.options.given :
                 GivenMemory(key).kind = "number"
                 => MemoryOf(instances.all[instances.last.target], key)
                      = IF GivenMemory(key).n > 0 THEN GivenMemory(key).n ELSE 0
        /\ \A p \in InstancePaths, key \in MemoryKeys : MemoryOf(instances.all[p], key) >= 0

(***************************************************************************)
(* VersionService: the local versions of state.version.local against the   *)
(* folders under versions/.  The store mutations localVersions,            *)
(* localVersion and localVersionRemove and the FileStateWatcher are not    *)
(* part of the sources; they are modelled by their names and their use.    *)
(***************************************************************************)
MaxVersionCalls == 3

VersionFolders == {"1.14.4", "1.15.2", ".DS_Store"}

\* f.startsWith('.')
startsWithDot(f) == f = ".DS_Store"

\* What a folder under versions/ holds: nothing, a version json that
\* Version.parse rejects, or one it resolves.
FolderStates == {"absent", "broken", "json"}

LocalVersion(versionFolder) == [folder |-> versionFolder, id |-> versionFolder]

\* resolveLocalVersion: Version.parse throws unless the folder holds a
\* version json it can read.
resolveLocalVersion(disk, versionFolder) ==
    IF disk[versionFolder] = "json"
    THEN [threw |-> FALSE, version |-> LocalVersion(versionFolder)]
    ELSE [threw |-> TRUE, version |-> LocalVersion(versionFolder)]

\* readdirEnsured(versions)
readdirEnsured(disk) == {f \in VersionFolders : disk[f] # "absent"}

\* The mutations of the version store module.
localVersions(local, versions) == versions

localVersion(local, v) == {l \in local : l.folder # v.folder} \cup {v}

localVersionRemove(local, folder) == {l \in local : l.folder # folder}

\* The reducer of versionsWatcher: (state, _, f) => [...new Set([...state, f])]
versionsWatcherReduce(state, f) == state \cup {f}

\* The versions that resolve among the files, as the for loop collects them
\* (names stands for files).
ResolvedOf(disk, names) ==
    {resolveLocalVersion(disk, f).version :
        f \in {g \in names : ~resolveLocalVersion(disk, g).threw}}

\* refreshVersions: a forced or first refresh reads the folder, a later one
\* takes what the watcher saw; nothing is committed when no version resolved.
refreshVersions(v, force) ==
    LET patch == ~force /\ v.versionLoaded
        read == IF patch THEN v.watched ELSE readdirEnsured(v.disk)
        names == {f \in read : ~startsWithDot(f)}
        versions == ResolvedOf(v.disk, names)
        local == IF versions # {}
                 THEN IF patch
                      THEN {l \in v.local : l.folder \notin {w.folder : w \in versions}}
                             \cup versions
                      ELSE localVersions(v.local, versions)
                 ELSE v.local
    IN  [v EXCEPT !.local = local,
                  !.watched = IF patch THEN {} ELSE @,
                  !.versionLoaded = TRUE]

\* refreshVersion
refreshVersion(v, versionFolder) ==
    LET r == resolveLocalVersion(v.disk, versionFolder)
    IN  [v EXCEPT !.local = IF r.threw THEN localVersionRemove(@, versionFolder)
                            ELSE localVersion(@, r.version)]

\* deleteVersion
deleteVersion(v, folder) ==
    [v EXCEPT !.disk[folder] = "absent",
              !.watched = versionsWatcherReduce(@, folder),
              !.local = localVersions(@, {l \in @ : l.folder # folder})]

VersionRest ==
    <<resourceRegistry, prIn, prOut, resVars, regOut, qryIn, qryOut, instance, domains, singleton,
      instances>>

VersionCalled(v, kind, force, folder) ==
    [v EXCEPT !.calls = @ + 1,
              !.last = [kind |-> kind, force |-> force, folder |-> folder, before |-> version.local]]

RefreshVersions(force) ==
    /\ version.calls < MaxVersionCalls
    /\ version' = VersionCalled(refreshVersions(version, force), "refreshVersions", force, "")
    /\ UNCHANGED VersionRest

RefreshVersion(versionFolder) ==
    /\ version.calls < MaxVersionCalls
    /\ version' = VersionCalled(refreshVersion(version, versionFolder), "refreshVersion", FALSE,
                                versionFolder)
    /\ UNCHANGED VersionRest

DeleteVersion(folder) ==
    /\ version.calls < MaxVersionCalls
    /\ version' = VersionCalled(deleteVersion(version, folder), "deleteVersion", FALSE, folder)
    /\ UNCHANGED VersionRest

\* Something outside the launcher writes or removes a folder under
\* versions/; the watcher sees its name.
FolderChanged(folder, to) ==
    /\ version.disk[folder] # to
    /\ version' = [version EXCEPT !.disk[folder] = to,
                                  !.watched = versionsWatcherReduce(@, folder)]
    /\ UNCHANGED VersionRest

InitVersions ==
    /\ ResourceAtRest
    /\ singleton = NoSingleton
    /\ instances = NoInstances
    /\ \E disk \in [VersionFolders -> FolderStates] :
          version = [local |-> {}, disk |-> disk, watched |-> {}, versionLoaded |-> FALSE,
                     calls |-> 0,
                     last |-> [kind |-> "none", force |-> FALSE, folder |-> "", before |-> {}]]

NextVersions ==
    \/ \E force \in BOOLEAN : RefreshVersions(force)
    \/ \E versionFolder \in VersionFolders : RefreshVersion(versionFolder)
    \/ \E folder \in VersionFolders : DeleteVersion(folder)
    \/ \E folder \in VersionFolders, to \in FolderStates : FolderChanged(folder, to)

SpecVersions == InitVersions /\ [][NextVersions]_vars

\* The folders under versions/ that refreshVersions reads and that resolve.
ResolvingFolders ==
    {f \in VersionFolders : ~startsWithDot(f) /\ ~resolveLocalVersion(version.disk, f).threw}

\* C37: after refreshVersions(true) state.version.local is exactly the set
\* of the version folders under versions/ that resolve, the empty set
\* included when none resolves.
ForcedRefreshMirrorsDisk ==
    [][RefreshVersions(TRUE) => {l.folder : l \in version'.local} = ResolvingFolders']_vars
====
